---- MODULE Spec2Model ----
(***************************************************************************)
(* VPS-FastSearch: the index store (SearchDB), the hybrid search pipeline  *)
(* and the daemon's model manager, as state machines.                      *)
(*                                                                         *)
(* SpecStore   index_document / index_batch / delete_source on one store   *)
(* SpecSearch  search_hybrid / search_hybrid_reranked on a fixed store     *)
(* SpecMgr     ModelManager.load_model / unload_model / get_status, the    *)
(*             idle-unload tasks and shutdown                              *)
(* SpecMgrLive SpecMgr with the event loop's fairness                      *)
(* SpecRpc     the daemon's connections: _handle_client, _handle_request   *)
(*             and the request handlers, the manager seen from outside     *)
(* SpecLife    daemon start (cli daemon start, start) and stop for two     *)
(*             processes on one socket path and one PID file               *)
(* SpecLifeLive SpecLife with each running process's fairness              *)
(* SpecLoop    the daemon's event loop: handlers suspended in load_model   *)
(*             or inside an inference, on two connections                  *)
(* SpecClient  one FastSearchClient, its socket and the daemon's answers   *)
(* SpecHandles two SearchDB handles on one file, statement by statement    *)
(*                                                                         *)
(* Abstractions.  A chunk's content is the set of its tokens; an FTS5      *)
(* query is a set of tokens that must all occur (implicit AND).  An        *)
(* embedding is [len, dir]: its length and which unit axis it is; two      *)
(* embeddings are at distance 0 when dir agrees and 1 otherwise.  The      *)
(* metadata and created_at columns are not modelled.  rrf_score is an      *)
(* exact fraction [num, den]; float64 rounding is not modelled.            *)
(***************************************************************************)
EXTENDS Integers, Sequences, FiniteSets, TLC

VARIABLES
  docs,        \* table docs: id -> [source, chunk_index, content]
  docs_fts,    \* FTS5 index docs_fts: rowid -> content
  docs_vec,    \* vec0 table docs_vec: id -> embedding
  last,        \* the last SearchDB call and what it returned
  issued,      \* history: every id a call has returned so far
  purged,      \* history: sources deleted and not indexed since
  result,      \* the list the last search call returned
  call,        \* the last search call's arguments
  repeated,    \* history: the last search call was issued a second time
  config,      \* FastSearchConfig: models (per slot) and memory.max_ram_mb
  models,      \* ModelManager._models, the slot names in OrderedDict order
  model_info,  \* the LoadedModel of each loaded slot
  load_lock,   \* ModelManager._load_lock: the connection holding it, or 0
  unload_tasks,\* the pending _delayed_unload task of a slot
  now,         \* time.time()
  pc,          \* where each connection's handler is
  req,         \* the slot each connection's load_model call names
  ev,          \* history: the last step of the manager and what it did
  status_resp, \* the answer to the last status request
  conn_state,  \* each client connection: "new", "open" or "closed"
  received,    \* frames whose length prefix _handle_client has read
  dispatched,  \* frames passed to _handle_request
  written,     \* responses written to the connection
  handling,    \* the request a connection's handler is suspended in
  request_count,     \* FastSearchDaemon._request_count
  reranker_instance, \* core._reranker_instance is not None
  rpc_ev,      \* history: the server's last step on a connection
  inst,        \* each daemon process: where it is in start / stop
  sock_file,   \* the socket file: the process whose bind made it, or 0
  pid_file,    \* the PID file: the process it names, or 0
  clients,     \* the client connections each process holds open
  wait_closed_waits, \* Server.wait_closed waits for the connections
  life_ev,     \* history: the last step of a daemon process
  loop,        \* the event loop of the daemon, a record:
               \*   task: where each connection's handler coroutine is
               \*   pending: the request a client has sent, not yet read
               \*   models: ModelManager._models, the slot names in order
               \*   lock: the connection holding _load_lock, or 0
               \*   ev: history, the last answer or inference end
  client,      \* a FastSearchClient and its connection, a record:
               \*   sock: _sock, "none", "open" or "peer_closed"
               \*   wire: its requests the daemon has not answered yet
               \*   stream: the responses written and not read yet
               \*   call: the call in progress (its number), or 0
               \*   count: the calls made on the client so far
               \*   ev: history, how the last call ended
  handle       \* two store handles on one file, a record:
               \*   index: where the call of the indexing handle is
               \*   delete: where the call of the deleting handle is
               \*   ev: history, the last call a handle has finished

storeVars == <<docs, docs_fts, docs_vec, last, issued, purged>>
searchVars == <<result, call, repeated>>
mgrVars == <<config, models, model_info, load_lock, unload_tasks, now, pc, req,
             ev, status_resp>>
rpcVars == <<conn_state, received, dispatched, written, handling,
             request_count, reranker_instance, rpc_ev>>
lifeVars == <<inst, sock_file, pid_file, clients, wait_closed_waits, life_ev>>
extVars == <<loop, client, handle>>
svcVars == <<rpcVars, lifeVars, extVars>>
vars == <<docs, docs_fts, docs_vec, last, issued, purged, result, call, repeated,
          config, models, model_info, load_lock, unload_tasks, now, pc, req,
          ev, status_resp, conn_state, received, dispatched, written, handling,
          request_count, reranker_instance, rpc_ev, inst, sock_file, pid_file,
          clients, wait_closed_waits, life_ev, loop, client, handle>>

----------------------------------------------------------------------------
(* Bounds and input sets *)

MaxId == 2          \* the store holds rowids 1..MaxId
MaxBatch == 2       \* index_batch takes at most this many items
MaxSearchDocs == 4  \* the searched store holds at most this many chunks
MaxLimit == 2       \* limit and rerank_top_k range over 0..MaxLimit

DIMENSIONS == 768

Sources == {"a.md", "b.md"}
Tokens == {"quick", "fox"}
Contents == {{"quick"}, {"quick", "fox"}}
Dirs == {1, 2}

GoodEmbeddings == {[len |-> DIMENSIONS, dir |-> d] : d \in Dirs}
BadEmbedding == [len |-> DIMENSIONS - 1, dir |-> 1]
EmbeddingInputs == GoodEmbeddings \cup {BadEmbedding}

\* One index_batch item: (source, chunk_index, content, embedding, metadata)
Item(source, chunk_index, content, embedding) ==
  [source |-> source, chunk_index |-> chunk_index,
   content |-> content, embedding |-> embedding]

\* Batches as the CLI builds them: one source, chunk_index = position - 1
\* the batches of n items, n in 0..MaxBatch, of one source each
BatchesOf(n) ==
  UNION {
    {[k \in 1..n |-> Item(s, k - 1, cs[k], es[k])] :
       cs \in [1..n -> Contents], es \in [1..n -> EmbeddingInputs]} :
    s \in Sources}

Max(S) == CHOOSE x \in S : \A y \in S : y <= x

Remove(f, ids) == [i \in DOMAIN f \ ids |-> f[i]]

NoSearch == [op |-> "none"]

NoCall == [op |-> "none", ok |-> TRUE, source |-> "", ids |-> <<>>, count |-> 0]

\* the model manager's inputs and its state before any request
MaxTime == 3        \* the clock runs over 0..MaxTime
IdleTimeout == 2    \* idle_timeout_seconds of the slots that have one

Conns == {1, 2}
Slots == {"embedder", "reranker", "summarizer"}
\* the slots _load_model_sync has a loader for
LoadableSlots == {"embedder", "reranker"}

ModelConfig(keep_loaded, idle_timeout_seconds) ==
  [keep_loaded |-> keep_loaded, idle_timeout_seconds |-> idle_timeout_seconds]

\* FastSearchConfig.default(), and variations of it: a budget that the
\* summarizer's estimate fits under some resident sizes and not under others,
\* and one that the reranker's does
ConfigInputs ==
  {[models |-> [s \in LoadableSlots |->
                  IF s = "embedder" THEN ModelConfig(ke, 0)
                  ELSE ModelConfig(kr, IdleTimeout)],
    max_ram_mb |-> m] :
     ke \in {"always", "on_demand"}, kr \in {"on_demand", "never"},
     m \in {500, 4500}}

\* what psutil may report as the resident set, in MB
RssReadings == {300, 700}

NoEvent == [kind |-> "none", slot |-> "", removed |-> FALSE, by |-> 0, lock |-> 0]
NoStatus == [taken |-> FALSE, loaded_models |-> <<>>]

\* FastSearchConfig.default()
DefaultConfig ==
  [models |-> [s \in LoadableSlots |->
                 IF s = "embedder" THEN ModelConfig("always", 0)
                 ELSE ModelConfig("on_demand", IdleTimeout)],
   max_ram_mb |-> 4000]

\* ModelManager.__init__
ManagerIdle ==
  /\ models = <<>>
  /\ model_info = <<>>
  /\ load_lock = 0
  /\ unload_tasks = <<>>
  /\ now = 0
  /\ pc = [c \in Conns |-> "idle"]
  /\ req = [c \in Conns |-> ""]
  /\ ev = NoEvent
  /\ status_resp = NoStatus

MaxFrames == 2      \* a client sends at most this many frames

\* if length > 10 * 1024 * 1024
MAX_FRAME == 10 * 1024 * 1024

\* "error": {"code": -32700, ...} and {"code": -32601, ...}
PARSE_ERROR == -32700
METHOD_NOT_FOUND == -32601

\* self._handlers: the nine registered methods
Handlers == {"ping", "status", "search", "embed", "rerank", "load_model",
             "unload_model", "reload_config", "shutdown"}

\* JSON null, and the ids the clients use
NullId == "null"
Ids == {"1", "2"}

\* a params object: the keys present, and the values the handlers branch on
\* (mode is "hybrid" and rerank is FALSE when absent, as params.get has it)
Params(keys, mode, rerank, slot) ==
  [keys |-> keys, mode |-> mode, rerank |-> rerank, slot |-> slot]
NoParams == Params({}, "hybrid", FALSE, "")

\* a payload: "object" is a JSON object, "not_object" any other JSON value,
\* "bad_json" text that is not JSON, "bad_utf8" bytes that are not UTF-8.
\* The method "[]" stands for a method member that is a JSON array.
Body(kind, id, method, params) ==
  [kind |-> kind, id |-> id, method |-> method, params |-> params]
Request(id, method, params) == Body("object", id, method, params)
Malformed == {Body(k, NullId, "", NoParams) :
                k \in {"bad_utf8", "bad_json", "not_object"}}

SearchModes == {"hybrid", "bm25", "vector", "fuzzy"}
SearchBodies ==
  {Request("1", "search", Params({"query"}, m, r, "")) :
     m \in SearchModes, r \in BOOLEAN}
  \cup {Request("1", "search", NoParams)}
EmbedBodies ==
  {Request("1", "embed", Params(k, "hybrid", FALSE, "")) : k \in {{"texts"}, {}}}
RerankBodies ==
  {Request("1", "rerank", Params(k, "hybrid", FALSE, "")) :
     k \in {{"query", "documents"}, {"query"}, {"documents"}}}
SlotBodies ==
  {Request("1", m, p) : m \in {"load_model", "unload_model"},
                        p \in {Params({"slot"}, "hybrid", FALSE, "embedder"),
                               NoParams}}
PlainBodies ==
  {Request(i, m, NoParams) : i \in Ids, m \in {"ping", "nosuch"}}
  \cup {Request("1", "status", NoParams), Request("1", "[]", NoParams)}
Bodies == Malformed \cup SearchBodies \cup EmbedBodies \cup RerankBodies
            \cup SlotBodies \cup PlainBodies

\* a frame: the declared length and the payload of that length.  The
\* shutdown and reload_config requests belong to the daemon's life cycle
\* and are not among the frames sent here.
Frame(length, body) == [length |-> length, body |-> body]
NoFrame == Frame(0, Body("none", NullId, "", NoParams))
Frames ==
  {Frame(1, b) : b \in Bodies}
  \cup {Frame(n, Request("1", "ping", NoParams)) :
          n \in {MAX_FRAME, MAX_FRAME + 1}}

NoRequest == [frame |-> NoFrame, awaits |-> "", loads |-> {}, inference |-> {}]

NoRpcEvent ==
  [kind |-> "none", conn |-> 0, frame |-> NoFrame, n |-> 0, passed |-> FALSE,
   counted |-> FALSE, done |-> FALSE, answered |-> FALSE, code |-> 0,
   id |-> NullId, raised |-> "", loads |-> {}, searched |-> FALSE,
   inference |-> {}]

RpcIdle ==
  /\ conn_state = [c \in Conns |-> "new"]
  /\ received = [c \in Conns |-> 0]
  /\ dispatched = [c \in Conns |-> 0]
  /\ written = [c \in Conns |-> 0]
  /\ handling = [c \in Conns |-> NoRequest]
  /\ request_count = 0
  /\ reranker_instance = FALSE
  /\ rpc_ev = NoRpcEvent

\* the daemon processes started on the one configured socket path
Inst == {1, 2}

MaxClients == 1     \* connections held open to one process

\* a process that has not been started
Off == [phase |-> "off", todo |-> <<>>, loaded |-> {}, failed |-> {},
        shutdown |-> FALSE, busy |-> FALSE, listening |-> FALSE,
        wrote_pid |-> FALSE, reloaded |-> FALSE]

NoLifeEvent == [kind |-> "none", by |-> 0, alive |-> FALSE]

\* FastSearchConfig.default() and variations in what is pinned
LifeConfigs ==
  {[models |-> [s \in LoadableSlots |->
                  IF s = "embedder" THEN ModelConfig(ke, 0)
                  ELSE ModelConfig(kr, IdleTimeout)],
    max_ram_mb |-> 4000] :
     ke \in {"always", "on_demand"}, kr \in {"always", "on_demand"}}

LifeIdle ==
  /\ inst = [i \in Inst |-> Off]
  /\ sock_file = 0
  /\ pid_file = 0
  /\ clients = [i \in Inst |-> 0]
  /\ wait_closed_waits = FALSE
  /\ life_ev = NoLifeEvent

\* a request of the event-loop model, and what a client has sent: the
\* request and the connection whose inference was running when it was sent
LoopRequest(method, slot, rerank) ==
  [method |-> method, slot |-> slot, rerank |-> rerank]

NoLoopRequest == [method |-> "none", slot |-> "", rerank |-> FALSE, during |-> 0]

LoopRequests ==
  {LoopRequest(m, "", FALSE) : m \in {"ping", "embed", "rerank"}}
    \cup {LoopRequest("search", "", r) : r \in BOOLEAN}
    \cup {LoopRequest(m, sl, FALSE) :
            m \in {"load_model", "unload_model"}, sl \in LoadableSlots}

\* a connection with no request in its handler
\* (waited: history, the handler was suspended on _load_lock in its
\* present load_model call)
LoopTaskIdle ==
  [at |-> "idle", method |-> "none", slot |-> "", rerank |-> FALSE,
   waited |-> FALSE]

NoLoopEvent ==
  [kind |-> "none", conn |-> 0, slot |-> "", during |-> 0, held |-> FALSE]

\* the daemon after start, no connection served yet
LoopIdle ==
  loop = [task |-> [c \in Conns |-> LoopTaskIdle],
          pending |-> [c \in Conns |-> NoLoopRequest],
          models |-> <<>>, lock |-> 0, ev |-> NoLoopEvent]

NoClientEvent == [kind |-> "none", call |-> 0, of |-> 0]

\* FastSearchClient.__init__: no socket yet
ClientIdle ==
  client = [sock |-> "none", wire |-> <<>>, stream |-> <<>>, call |-> 0,
            count |-> 0, ev |-> NoClientEvent]

\* a store handle outside any call
NoIndexCall == [at |-> "idle", op |-> "none", items |-> <<>>, doc_id |-> 0]
NoDeleteCall == [at |-> "idle", source |-> "", ids |-> {}, found |-> 0]
NoHandleEvent == [op |-> "none", ok |-> TRUE, count |-> 0, removed |-> 0]

\* two SearchDB handles opened on one database file
HandlesIdle ==
  handle = [index |-> NoIndexCall, delete |-> NoDeleteCall,
            ev |-> NoHandleEvent]

ExtIdle ==
  /\ LoopIdle
  /\ ClientIdle
  /\ HandlesIdle

----------------------------------------------------------------------------
(* The storage engine's statements, each atomic and committed on its own   *)
(* (the connection is in autocommit mode: no BEGIN is ever issued)         *)

\* rowid of the next INSERT into docs: id INTEGER PRIMARY KEY, no AUTOINCREMENT
NextRowid(d) == IF DOMAIN d = {} THEN 1 ELSE Max(DOMAIN d) + 1

\* INSERT INTO docs (source, chunk_index, content, metadata)
InsertDocs(d, item) ==
  d @@ (NextRowid(d) :> [source |-> item.source,
                         chunk_index |-> item.chunk_index,
                         content |-> item.content])

\* trigger docs_ai: INSERT INTO docs_fts(rowid, content) VALUES (new.id, new.content)
docs_ai(f, id, content) == f @@ (id :> content)

\* mutant: the delete trigger does not fire
docs_ad_missing(f, ids) == f

\* trigger docs_ad, once per deleted row: the FTS5 'delete' command
docs_ad(f, ids) == Remove(f, ids)

\* INSERT INTO docs_vec (id, embedding): vec0 rejects a vector whose length
\* is not the declared FLOAT[768], and a duplicate primary key
VecInsertOk(v, id, embedding) ==
  embedding.len = DIMENSIONS /\ id \notin DOMAIN v

InsertVec(v, id, embedding) == v @@ (id :> embedding)

\* One pass of the insert code shared by index_document and index_batch:
\* the docs row (and its FTS row) is written first, then the vector row.
IndexOne(st, item) ==
  LET id == NextRowid(st.docs)
      d2 == InsertDocs(st.docs, item)
      f2 == docs_ai(st.fts, id, item.content)
  IN IF VecInsertOk(st.vec, id, item.embedding)
     THEN [docs |-> d2, fts |-> f2,
           vec |-> InsertVec(st.vec, id, item.embedding),
           ok |-> TRUE, ids |-> Append(st.ids, id)]
     ELSE [docs |-> d2, fts |-> f2, vec |-> st.vec,
           ok |-> FALSE, ids |-> st.ids]

\* The loop of index_batch: stops at the first item that raises
RECURSIVE IndexLoop(_, _, _)
IndexLoop(st, items, k) ==
  IF k > Len(items) \/ ~st.ok THEN st
  ELSE IndexLoop(IndexOne(st, items[k]), items, k + 1)

Store == [docs |-> docs, fts |-> docs_fts, vec |-> docs_vec,
          ok |-> TRUE, ids |-> <<>>]

SeqToSet(s) == {s[k] : k \in 1..Len(s)}

----------------------------------------------------------------------------
(* SearchDB operations *)

index_document(source, chunk_index, content, embedding) ==
  LET st == IndexOne(Store, Item(source, chunk_index, content, embedding)) IN
  /\ NextRowid(docs) <= MaxId
  /\ docs' = st.docs
  /\ docs_fts' = st.fts
  /\ docs_vec' = st.vec
  /\ last' = [op |-> "index_document", ok |-> st.ok, source |-> source,
              ids |-> st.ids, count |-> 0]
  /\ issued' = issued \cup SeqToSet(st.ids)
  /\ purged' = purged \ {source}
  /\ UNCHANGED <<searchVars, mgrVars, svcVars>>

index_batch(items) ==
  LET st == IndexLoop(Store, items, 1) IN
  /\ NextRowid(docs) - 1 + Len(items) <= MaxId
  /\ docs' = st.docs
  /\ docs_fts' = st.fts
  /\ docs_vec' = st.vec
  /\ last' = [op |-> "index_batch", ok |-> st.ok,
              source |-> IF items = <<>> THEN "" ELSE items[1].source,
              \* the id list is returned only when no item raised
              ids |-> IF st.ok THEN st.ids ELSE <<>>, count |-> 0]
  /\ issued' = issued \cup (IF st.ok THEN SeqToSet(st.ids) ELSE {})
  /\ purged' = purged \ {items[k].source : k \in 1..Len(items)}
  /\ UNCHANGED <<searchVars, mgrVars, svcVars>>

\* DELETE FROM docs WHERE source = ?
DeleteDocsWhere(d, source) ==
  [i \in {j \in DOMAIN d : d[j].source # source} |-> d[i]]

delete_source(source) ==
  LET ids == {i \in DOMAIN docs : docs[i].source = source} IN
  /\ IF ids # {}
     THEN /\ docs_vec' = Remove(docs_vec, ids)
          /\ docs' = DeleteDocsWhere(docs, source)
          /\ docs_fts' = docs_ad(docs_fts, DOMAIN docs \ DOMAIN DeleteDocsWhere(docs, source))
     ELSE UNCHANGED <<docs, docs_fts, docs_vec>>
  /\ last' = [op |-> "delete_source", ok |-> TRUE, source |-> source,
              ids |-> <<>>, count |-> Cardinality(ids)]
  /\ purged' = purged \cup {source}
  /\ UNCHANGED <<issued, searchVars, mgrVars, svcVars>>

\* get_stats: total_chunks, total_sources and the per-source chunk counts
get_stats ==
  LET srcs == {docs[i].source : i \in DOMAIN docs} IN
  [total_chunks |-> Cardinality(DOMAIN docs),
   total_sources |-> Cardinality(srcs),
   top_sources |-> {[source |-> s,
                     chunks |-> Cardinality({i \in DOMAIN docs : docs[i].source = s})] :
                    s \in srcs}]

----------------------------------------------------------------------------
(* The two retrieval paths.  The storage engine ranks; the model of its    *)
(* ranking: a shorter matching chunk has the better BM25 score, and rows    *)
(* of equal score or distance come in rowid order (the order in which      *)
(* both virtual tables scan; the queries name no second sort key).         *)

Min(a, b) == IF a <= b THEN a ELSE b

\* a Python list: the elements computed once, when the list is built
List(xs) == SubSeq(xs, 1, Len(xs))

\* docs_fts MATCH ?: every token of the query occurs in the content
Matches(content, query) == query \subseteq content

\* bm25(docs_fts), lower is better
Bm25Score(content, query) == Cardinality(content)

\* distance between a stored vector and the query vector
VecDistance(e1, e2) == IF e1.dir = e2.dir THEN 0 ELSE 1

EngineBefore(i, j, key) ==
  \/ key[i] < key[j]
  \/ key[i] = key[j] /\ i < j

\* ORDER BY key over the rowids S
RECURSIVE EngineSort(_, _)
EngineSort(S, key) ==
  IF S = {} THEN <<>>
  ELSE LET m == CHOOSE i \in S : \A j \in S \ {i} : EngineBefore(i, j, key)
       IN <<m>> \o EngineSort(S \ {m}, key)

\* for rank, row in enumerate(cursor, 1): the rows joined with docs
Rows(ids) ==
  List([n \in 1..Len(ids) |->
          [id |-> ids[n], source |-> docs[ids[n]].source,
           chunk_index |-> docs[ids[n]].chunk_index,
           content |-> docs[ids[n]].content, rank |-> n]])

search_bm25(query, limit) ==
  LET hits == {i \in DOMAIN docs_fts \cap DOMAIN docs : Matches(docs_fts[i], query)}
      ordered == EngineSort(hits, [i \in hits |-> Bm25Score(docs_fts[i], query)])
  IN Rows(SubSeq(ordered, 1, Min(limit, Len(ordered))))

\* the k nearest rows of docs_vec, then the join with docs
search_vector(embedding, limit) ==
  LET ordered == EngineSort(DOMAIN docs_vec,
                            [i \in DOMAIN docs_vec |-> VecDistance(docs_vec[i], embedding)])
      knn == SubSeq(ordered, 1, Min(limit, Len(ordered)))
  IN Rows(SelectSeq(knn, LAMBDA i : i \in DOMAIN docs))

SeqIds(rows) == {rows[n].id : n \in 1..Len(rows)}

\* {r["id"]: r["rank"] for r in results}
RankMap(rows) ==
  [id \in SeqIds(rows) |-> (CHOOSE n \in 1..Len(rows) : rows[n].id = id)]

----------------------------------------------------------------------------
(* Reciprocal rank fusion *)

\* a/b + c/d as one fraction; the comparisons cross-multiply
FracGt(x, y) == x.num * y.den > y.num * x.den
FracEq(x, y) == x.num * y.den = y.num * x.den

\* bm25_weight * (1 / (k + bm25_rank)) + vec_weight * (1 / (k + vec_rank))
RrfScore(k, bm25_weight, vec_weight, bm25_rank, vec_rank) ==
  [num |-> bm25_weight * (k + vec_rank) + vec_weight * (k + bm25_rank),
   den |-> (k + bm25_rank) * (k + vec_rank)]

\* mutant: the last fetched rank itself, no penalty
DefaultRankNoPenalty(fetch_limit) == fetch_limit

\* default_rank = fetch_limit + 1
DefaultRank(fetch_limit) == fetch_limit + 1

\* all_ids = set(bm25_ranks.keys()) | set(vec_ranks.keys())
AllIds(bm25_ids, vec_ids) == bm25_ids \cup vec_ids

\* for doc_id in all_ids: CPython enumerates a set of small ints (below the
\* table size, 8 at least) by value
RECURSIVE SetIterOrderAsc(_)
SetIterOrderAsc(S) ==
  IF S = {} THEN <<>>
  ELSE LET m == CHOOSE i \in S : \A j \in S : i <= j
       IN <<m>> \o SetIterOrderAsc(S \ {m})

\* mutant: an enumeration order that is not the same on every call
SetIterOrderPerCall(S) ==
  LET asc == SetIterOrderAsc(S)
  IN IF call.op = "none" THEN asc
     ELSE [n \in 1..Len(asc) |-> asc[Len(asc) + 1 - n]]

SetIterOrder(S) == SetIterOrderAsc(S)

\* list.sort(key=..., reverse=True) is stable: an element comes after every
\* element of greater key and after the earlier elements of equal key
StableSortDesc(seq, Gt(_, _)) ==
  LET N == Len(seq)
      pos(n) == 1 + Cardinality({m \in 1..N : Gt(seq[m], seq[n])})
                  + Cardinality({m \in 1..(n - 1) :
                                   ~Gt(seq[m], seq[n]) /\ ~Gt(seq[n], seq[m])})
  IN List([p \in 1..N |-> seq[CHOOSE n \in 1..N : pos(n) = p]])

RrfGt(r1, r2) == FracGt(r1.rrf_score, r2.rrf_score)
RrfLt(r1, r2) == FracGt(r2.rrf_score, r1.rrf_score)

\* mutant: reverse=True left out
SortByRrfAscending(rrf_results) == StableSortDesc(rrf_results, RrfLt)

\* rrf_results.sort(key=lambda x: x["rrf_score"], reverse=True)
SortByRrf(rrf_results) == StableSortDesc(rrf_results, RrfGt)

\* mutant: the ranks assigned, the whole list returned
RankWithoutTruncate(xs, limit) ==
  [n \in 1..Len(xs) |-> [xs[n] EXCEPT !.rank = n]]

\* for i, r in enumerate(xs[:limit], 1): r["rank"] = i; return xs[:limit]
RankAndTruncate(xs, limit) ==
  List([n \in 1..Min(limit, Len(xs)) |-> [xs[n] EXCEPT !.rank = n]])

\* result_lookup: the first row of bm25_results + vec_results with each id
ResultLookup(both) ==
  [id \in SeqIds(both) |->
     both[CHOOSE n \in 1..Len(both) :
            both[n].id = id /\ \A m \in 1..(n - 1) : both[m].id # id]]

\* one pass of the loop over all_ids
RrfRow(doc_id, bm25_ranks, vec_ranks, r, default_rank, k, bm25_weight, vec_weight) ==
  LET bm25_rank == IF doc_id \in DOMAIN bm25_ranks
                   THEN bm25_ranks[doc_id] ELSE default_rank
      vec_rank == IF doc_id \in DOMAIN vec_ranks
                  THEN vec_ranks[doc_id] ELSE default_rank
  IN [id |-> r.id, source |-> r.source, chunk_index |-> r.chunk_index,
      content |-> r.content, rank |-> r.rank,
      rrf_score |-> RrfScore(k, bm25_weight, vec_weight, bm25_rank, vec_rank),
      \* 0 stands for None
      bm25_rank |-> IF doc_id \in DOMAIN bm25_ranks THEN bm25_rank ELSE 0,
      vec_rank |-> IF doc_id \in DOMAIN vec_ranks THEN vec_rank ELSE 0]

\* rrf_results before the sort, from the two fetched lists
Fuse(bm25_results, vec_results, fetch_limit, k, bm25_weight, vec_weight) ==
  LET bm25_ranks == RankMap(bm25_results)
      vec_ranks == RankMap(vec_results)
      all_ids == SetIterOrder(AllIds(DOMAIN bm25_ranks, DOMAIN vec_ranks))
      result_lookup == ResultLookup(bm25_results \o vec_results)
      default_rank == DefaultRank(fetch_limit)
  IN List([n \in 1..Len(all_ids) |->
             RrfRow(all_ids[n], bm25_ranks, vec_ranks, result_lookup[all_ids[n]],
                    default_rank, k, bm25_weight, vec_weight)])

\* the candidates of search_hybrid before the sort
RrfCandidates(query, embedding, limit, k, bm25_weight, vec_weight) ==
  Fuse(search_bm25(query, limit * 3), search_vector(embedding, limit * 3),
       limit * 3, k, bm25_weight, vec_weight)

search_hybrid(query, embedding, limit, k, bm25_weight, vec_weight) ==
  RankAndTruncate(
    SortByRrf(RrfCandidates(query, embedding, limit, k, bm25_weight, vec_weight)),
    limit)

RerankGt(c1, c2) == c1.rerank_score > c2.rerank_score
RerankLt(c1, c2) == c1.rerank_score < c2.rerank_score

\* mutant: an ascending sort, reversed afterwards
SortByRerankReversed(candidates) ==
  LET up == StableSortDesc(candidates, RerankLt)
  IN [n \in 1..Len(up) |-> up[Len(up) + 1 - n]]

\* candidates.sort(key=lambda x: x["rerank_score"], reverse=True)
SortByRerank(candidates) == StableSortDesc(candidates, RerankGt)

RRF_K == 60
DEFAULT_WEIGHT == 1

\* reranker: the cross-encoder's score of each content for the query
search_hybrid_reranked(query, embedding, limit, rerank_top_k, reranker) ==
  LET candidates == search_hybrid(query, embedding, rerank_top_k,
                                  RRF_K, DEFAULT_WEIGHT, DEFAULT_WEIGHT)
      scored == List([n \in 1..Len(candidates) |->
                        [id |-> candidates[n].id, source |-> candidates[n].source,
                         chunk_index |-> candidates[n].chunk_index,
                         content |-> candidates[n].content,
                         rank |-> candidates[n].rank,
                         rrf_score |-> candidates[n].rrf_score,
                         bm25_rank |-> candidates[n].bm25_rank,
                         vec_rank |-> candidates[n].vec_rank,
                         rerank_score |-> reranker[candidates[n].content]]])
  IN IF candidates = <<>> THEN <<>>
     ELSE RankAndTruncate(SortByRerank(scored), limit)

----------------------------------------------------------------------------
InitStore ==
  /\ docs = <<>>
  /\ docs_fts = <<>>
  /\ docs_vec = <<>>
  /\ last = NoCall
  /\ issued = {}
  /\ purged = {}
  /\ result = <<>>
  /\ call = NoSearch
  /\ repeated = FALSE
  /\ config = DefaultConfig
  /\ ManagerIdle
  /\ RpcIdle
  /\ LifeIdle
  /\ ExtIdle

IndexDocument ==
  \E s \in Sources, c \in Contents, e \in EmbeddingInputs :
    index_document(s, 0, c, e)

\* the batches that fit the rowids the model has left
IndexBatch ==
  \E n \in 0..Min(MaxBatch, MaxId + 1 - NextRowid(docs)) :
    \E items \in BatchesOf(n) : index_batch(items)

DeleteSource == \E s \in Sources : delete_source(s)

NextStore == IndexDocument \/ IndexBatch \/ DeleteSource

SpecStore == InitStore /\ [][NextStore]_vars

----------------------------------------------------------------------------
(* Searches on a store that no call changes meanwhile *)

Queries == {{"quick"}, {"fox"}}
\* the stored vectors take either direction; the query vector takes one
QueryEmbeddings == {[len |-> DIMENSIONS, dir |-> CHOOSE d \in Dirs : TRUE]}
Limits == 0..MaxLimit
RrfKs == {1, RRF_K}
WeightPairs == {<<1, 1>>, <<2, 1>>}
\* rerank_top_k may exceed limit: the reranker sees more than is returned
TopKs == 0..(MaxLimit + 1)
RerankScores == {0, 1}
Rerankers == [Contents -> RerankScores]

\* a store that n successful index_document calls have built
BuiltStores ==
  UNION {
    {[docs |-> [i \in 1..n |-> [source |-> "a.md", chunk_index |-> i - 1,
                                content |-> cs[i]]],
      fts |-> [i \in 1..n |-> cs[i]],
      vec |-> [i \in 1..n |-> es[i]]] :
       cs \in [1..n -> Contents], es \in [1..n -> GoodEmbeddings]} :
    n \in 0..MaxSearchDocs}

InitSearch ==
  /\ \E st \in BuiltStores :
       /\ docs = st.docs
       /\ docs_fts = st.fts
       /\ docs_vec = st.vec
  /\ last = NoCall
  /\ issued = DOMAIN docs
  /\ purged = {}
  /\ result = <<>>
  /\ call = NoSearch
  /\ repeated = FALSE
  /\ config = DefaultConfig
  /\ ManagerIdle
  /\ RpcIdle
  /\ LifeIdle
  /\ ExtIdle

HybridCall(q, e, limit, k, w) ==
  [op |-> "search_hybrid", query |-> q, embedding |-> e, limit |-> limit,
   k |-> k, bm25_weight |-> w[1], vec_weight |-> w[2]]

RerankedCall(q, e, limit, top_k, rr) ==
  [op |-> "search_hybrid_reranked", query |-> q, embedding |-> e,
   limit |-> limit, rerank_top_k |-> top_k, reranker |-> rr]

\* what the call c returns on the store as it is now
Answer(c) ==
  IF c.op = "search_hybrid"
  THEN search_hybrid(c.query, c.embedding, c.limit, c.k, c.bm25_weight, c.vec_weight)
  ELSE search_hybrid_reranked(c.query, c.embedding, c.limit, c.rerank_top_k, c.reranker)

SearchHybrid ==
  /\ call.op = "none"
  /\ \E q \in Queries, e \in QueryEmbeddings, limit \in Limits,
        k \in RrfKs, w \in WeightPairs :
       /\ call' = HybridCall(q, e, limit, k, w)
       /\ result' = Answer(HybridCall(q, e, limit, k, w))
  /\ UNCHANGED <<storeVars, repeated, mgrVars, svcVars>>

SearchHybridReranked ==
  /\ call.op = "none"
  /\ \E q \in {{"quick"}}, e \in QueryEmbeddings, limit \in Limits,
        top_k \in TopKs, rr \in Rerankers :
       /\ call' = RerankedCall(q, e, limit, top_k, rr)
       /\ result' = Answer(RerankedCall(q, e, limit, top_k, rr))
  /\ UNCHANGED <<storeVars, repeated, mgrVars, svcVars>>

\* the same call once more, on the unchanged store
SearchAgain ==
  /\ call.op = "search_hybrid"
  /\ ~repeated
  /\ repeated' = TRUE
  /\ result' = Answer(call)
  /\ UNCHANGED <<storeVars, call, mgrVars, svcVars>>

NextSearch == SearchHybrid \/ SearchHybridReranked \/ SearchAgain

SpecSearch == InitSearch /\ [][NextSearch]_vars

----------------------------------------------------------------------------
(* The daemon's ModelManager.  Each connection runs one request at a time; *)
(* a handler runs without interruption up to its next suspension: waiting  *)
(* for _load_lock, and the loader call in the executor.                    *)

\* estimate_model_memory
estimate_model_memory(slot) ==
  CASE slot = "embedder" -> 450
    [] slot = "reranker" -> 90
    [] slot = "summarizer" -> 4000
    [] OTHER -> 500

\* model_config and model_config.keep_loaded == "always"
IsPinned(slot) ==
  slot \in DOMAIN config.models /\ config.models[slot].keep_loaded = "always"

WithoutSlot(ms, slot) == SelectSeq(ms, LAMBDA x : x # slot)

\* mutant: the entry that follows the named one dropped with it
unload_model_two(ms, slot) ==
  IF slot \notin SeqToSet(ms) THEN ms
  ELSE IF IsPinned(slot) THEN ms
  ELSE LET rest == WithoutSlot(ms, slot)
       IN IF rest = <<>> THEN rest ELSE Tail(rest)

\* mutant: the oldest entry dropped in place of the named one
unload_model_oldest(ms, slot) ==
  IF slot \notin SeqToSet(ms) THEN ms
  ELSE IF IsPinned(slot) THEN ms
  ELSE Tail(ms)

\* mutant: the keep_loaded test left out
unload_model_any(ms, slot) ==
  IF slot \notin SeqToSet(ms) THEN ms ELSE WithoutSlot(ms, slot)

\* unload_model: _models after the call
unload_model(ms, slot) ==
  IF slot \notin SeqToSet(ms) THEN ms
  ELSE IF IsPinned(slot) THEN ms
  ELSE WithoutSlot(ms, slot)

\* for s in self._models: the slots with a config that is not "always"
Evictable(ms) ==
  {n \in 1..Len(ms) : /\ ms[n] \in DOMAIN config.models
                      /\ config.models[ms[n]].keep_loaded # "always"}
EvictSlot(ms) == ms[CHOOSE n \in Evictable(ms) : \A m \in Evictable(ms) : n <= m]

\* mutant: the size of the model to load left out of the test
OverBudgetNow(current_usage, needed_mb, ms) ==
  current_usage > config.max_ram_mb /\ ms # <<>>

\* while current_usage + needed_mb > max_ram and self._models
OverBudget(current_usage, needed_mb, ms) ==
  current_usage + needed_mb > config.max_ram_mb /\ ms # <<>>

\* the loop of _ensure_memory_budget from one reading of get_memory_usage
\* on: every way it can end, whatever the later readings are
RECURSIVE EvictionLoop(_, _, _, _)
EvictionLoop(ms, needed_mb, victims, current_usage) ==
  IF ~OverBudget(current_usage, needed_mb, ms) \/ Evictable(ms) = {}
  THEN {[models |-> ms, victims |-> victims, usage |-> current_usage]}
  ELSE UNION {EvictionLoop(unload_model(ms, EvictSlot(ms)), needed_mb,
                           Append(victims, EvictSlot(ms)), r) :
              r \in RssReadings}

\* _ensure_memory_budget: _models after it, the slots it evicted in order
\* and the last reading it took
EnsureMemoryBudget(ms, needed_mb) ==
  UNION {EvictionLoop(ms, needed_mb, <<>>, r) : r \in RssReadings}

\* model_info of the slots still in ms
Keep(info, ms) == [s \in SeqToSet(ms) |-> info[s]]

\* mutant: last_used left as it was
TouchSkipped(info, slot) == info

\* LoadedModel.touch: self.last_used = time.time()
Touch(info, slot) == [info EXCEPT ![slot].last_used = now]

\* mutant: the hit leaves the entry where it is
MoveToEndSkipped(ms, slot) == ms

MoveToEnd(ms, slot) == Append(WithoutSlot(ms, slot), slot)

\* _schedule_unload: the pending tasks after the call
ScheduleUnload(tasks, slot) ==
  IF slot \notin DOMAIN config.models THEN tasks
  ELSE IF config.models[slot].keep_loaded # "on_demand" THEN tasks
  ELSE IF config.models[slot].idle_timeout_seconds <= 0 THEN tasks
  ELSE [t \in DOMAIN tasks \cup {slot} |->
          IF t = slot
          THEN [timeout |-> config.models[slot].idle_timeout_seconds,
                wakes |-> now + config.models[slot].idle_timeout_seconds]
          ELSE tasks[t]]

\* get_status: loaded_models (total_memory_mb, the measured resident set,
\* is not modelled)
get_status ==
  [taken |-> TRUE,
   loaded_models |-> [s \in SeqToSet(models) |->
                        [loaded_at |-> model_info[s].loaded_at,
                         last_used |-> model_info[s].last_used,
                         memory_mb |-> model_info[s].memory_mb,
                         idle_seconds |-> now - model_info[s].last_used]],
   max_memory_mb |-> config.max_ram_mb]

\* what the last step did: by is the connection whose coroutine ran (0 for
\* a timer task and for shutdown), lock the holder of _load_lock while it
\* ran (0: nobody)
Event(kind, slot, removed, by, lock) ==
  [kind |-> kind, slot |-> slot, removed |-> removed, by |-> by, lock |-> lock]

\* the slots ss with the timestamps they had
Dropped(ss) ==
  [k \in 1..Len(ss) |-> [slot |-> ss[k],
                         loaded_at |-> model_info[ss[k]].loaded_at,
                         last_used |-> model_info[ss[k]].last_used]]

\* mutant: the block entered without the lock taken
AcquireSkipped(lock, c) == lock

\* async with self._load_lock: the holder inside the block
Acquire(lock, c) == c

\* mutant: the test for a loaded slot left out
AlreadyLoadedNever(ms, slot) == FALSE

\* if slot in self._models
AlreadyLoaded(ms, slot) == slot \in SeqToSet(ms)

\* load_model from the point where _load_lock is acquired up to the return
\* (slot loaded already) or up to the loader call
LoadLocked(c, slot) ==
  LET holder == Acquire(load_lock, c) IN
  IF AlreadyLoaded(models, slot)
  THEN /\ model_info' = Touch(model_info, slot)
       /\ models' = MoveToEnd(models, slot)
       /\ load_lock' = 0
       /\ pc' = [pc EXCEPT ![c] = "idle"]
       /\ req' = [req EXCEPT ![c] = ""]
       \* waited: the call had queued for the lock; after_load: the step
       \* before was the end of the loader call for this slot
       /\ ev' = [kind |-> "load_ok", slot |-> slot, removed |-> FALSE,
                 by |-> c, lock |-> holder, waited |-> pc[c] = "waiting",
                 after_load |-> /\ ev.kind = "load_ok" /\ ev.slot = slot
                                /\ "waited" \notin DOMAIN ev]
       /\ UNCHANGED unload_tasks
  ELSE /\ unload_tasks' = Remove(unload_tasks, {slot})
       /\ \E o \in EnsureMemoryBudget(models, estimate_model_memory(slot)) :
            /\ models' = o.models
            /\ model_info' = Keep(model_info, o.models)
            /\ ev' = [kind |-> "load_started", slot |-> slot,
                      removed |-> o.victims # <<>>, by |-> c, lock |-> holder,
                      victims |-> Dropped(o.victims), usage |-> o.usage,
                      after_error |-> ev.kind = "load_error"]
       /\ load_lock' = holder
       /\ pc' = [pc EXCEPT ![c] = "loading"]
       /\ req' = [req EXCEPT ![c] = slot]

\* the daemon has stopped: shutdown has run and run_until_complete returns
Stopped == \E c \in Conns : pc[c] = "stopped"

\* mutant: a second load let in while one is in progress
LockFreeAlways(lock) == TRUE

\* _load_lock is not held
LockFree(lock) == lock = 0

\* a load_model request arrives on connection c (search, embed and rerank
\* reach the manager through the same load_model call)
LoadModelRequest(c, slot) ==
  /\ pc[c] = "idle"
  /\ \A d \in Conns : pc[d] # "waiting"
  /\ status_resp' = NoStatus
  /\ IF LockFree(load_lock)
     THEN LoadLocked(c, slot)
     ELSE /\ pc' = [pc EXCEPT ![c] = "waiting"]
          /\ req' = [req EXCEPT ![c] = slot]
          /\ ev' = Event("load_waiting", slot, FALSE, c, load_lock)
          /\ UNCHANGED <<models, model_info, load_lock, unload_tasks>>
  /\ UNCHANGED <<config, now, storeVars, searchVars, svcVars>>

\* the lock is released and the waiting load_model call gets it
LockAcquired(c) ==
  /\ pc[c] = "waiting"
  /\ load_lock = 0
  /\ status_resp' = NoStatus
  /\ LoadLocked(c, req[c])
  /\ UNCHANGED <<config, now, storeVars, searchVars, svcVars>>

\* where a handler that ends leaves its connection
Rest == IF Stopped THEN "stopped" ELSE "idle"

\* mutant: the new entry replaces the map
RegisterAlone(ms, slot) == <<slot>>

\* self._models[slot] = model: a new key goes to the end of the map
Register(ms, slot) == Append(WithoutSlot(ms, slot), slot)

\* the loader call returns an instance: the rest of load_model (and the
\* touch() the handler calls on the record it is handed, at the same time)
LoaderReturns(c) ==
  /\ pc[c] = "loading"
  /\ req[c] \in LoadableSlots \cap DOMAIN config.models
  /\ models' = Register(models, req[c])
  /\ model_info' =
       [s \in SeqToSet(models) \cup {req[c]} |->
          IF s = req[c]
          THEN [loaded_at |-> now, last_used |-> now,
                memory_mb |-> estimate_model_memory(req[c])]
          ELSE model_info[s]]
  /\ unload_tasks' = ScheduleUnload(unload_tasks, req[c])
  /\ load_lock' = 0
  /\ pc' = [pc EXCEPT ![c] = Rest]
  /\ req' = [req EXCEPT ![c] = ""]
  \* after_error: the call before this one, on any slot, ended in a
  \* loader failure
  /\ ev' = [kind |-> "load_ok", slot |-> req[c], removed |-> FALSE, by |-> c,
            lock |-> load_lock,
            after_error |-> ev.kind = "load_started" /\ ev.after_error]
  /\ status_resp' = NoStatus
  /\ UNCHANGED <<config, now, storeVars, searchVars, svcVars>>

\* except Exception as e: "error": {"code": -32000, "message": str(e)}
SERVER_ERROR == -32000

\* mutant: the lock still held after the exception has left the block
ReleaseSkipped(lock) == lock

\* the exit of async with self._load_lock, by return or by exception
Release(lock) == 0

\* the loader call raises: the exception leaves load_model through the
\* async with block and the handler, and _handle_request answers the client
\* with error -32000
LoaderRaises(c) ==
  /\ pc[c] = "loading"
  /\ load_lock' = Release(load_lock)
  /\ pc' = [pc EXCEPT ![c] = Rest]
  /\ req' = [req EXCEPT ![c] = ""]
  \* evicted: the step before was this call's eviction pass, and it had
  \* dropped a slot
  /\ ev' = [kind |-> "load_error", slot |-> req[c], removed |-> FALSE,
            by |-> c, lock |-> load_lock, code |-> SERVER_ERROR,
            evicted |-> /\ ev.kind = "load_started" /\ ev.by = c
                        /\ ev.removed]
  /\ status_resp' = NoStatus
  /\ UNCHANGED <<config, models, model_info, unload_tasks, now, storeVars, searchVars, svcVars>>

\* an unload_model request: always answered {unloaded: true}
UnloadModelRequest(c, slot) ==
  /\ pc[c] = "idle"
  /\ models' = unload_model(models, slot)
  /\ model_info' = Keep(model_info, unload_model(models, slot))
  /\ ev' = Event("unload_ok", slot, models' # models, c, load_lock)
  /\ status_resp' = NoStatus
  /\ UNCHANGED <<config, load_lock, unload_tasks, now, pc, req, storeVars, searchVars, svcVars>>

\* a status request
StatusRequest(c) ==
  /\ pc[c] = "idle"
  /\ status_resp' = get_status
  /\ UNCHANGED <<config, models, model_info, load_lock, unload_tasks, now, pc,
                 req, ev, storeVars, searchVars, svcVars>>

\* mutant: no second look at last_used after the sleep
IdleLongEnoughUnchecked(idle_time, timeout) == TRUE

\* if idle_time >= timeout
IdleLongEnough(idle_time, timeout) == idle_time >= timeout

\* _delayed_unload wakes from its sleep
DelayedUnload(slot) ==
  /\ slot \in DOMAIN unload_tasks
  /\ now >= unload_tasks[slot].wakes
  /\ unload_tasks' = Remove(unload_tasks, {slot})
  /\ LET due == /\ slot \in SeqToSet(models)
                /\ IdleLongEnough(now - model_info[slot].last_used,
                                  unload_tasks[slot].timeout)
         ms == IF due THEN unload_model(models, slot) ELSE models
     IN /\ models' = ms
        /\ model_info' = Keep(model_info, ms)
        /\ ev' = Event("idle_unload", slot, ms # models, 0, load_lock)
  /\ status_resp' = NoStatus
  /\ UNCHANGED <<config, load_lock, now, pc, req, storeVars, searchVars, svcVars>>

\* mutant: the slots dropped through unload_model, which keeps the pinned
PopAllUnpinned(ms) == SelectSeq(ms, IsPinned)

\* for slot in slots: self._models.pop(slot)
PopAll(ms) == <<>>

\* FastSearchDaemon.stop: ModelManager.shutdown, after which start returns
\* and the event loop is closed.  The handlers that were idle or waiting
\* for the lock never run again; a loader call that was in the executor may
\* still be answered in the loop's last pass.
Shutdown ==
  /\ ~Stopped
  /\ unload_tasks' = <<>>
  /\ models' = PopAll(models)
  /\ model_info' = Keep(model_info, PopAll(models))
  /\ pc' = [c \in Conns |-> IF pc[c] = "loading" THEN "loading" ELSE "stopped"]
  /\ ev' = [kind |-> "shutdown", slot |-> "", removed |-> models # <<>>,
            by |-> 0, lock |-> load_lock, victims |-> Dropped(models),
            cancelled |-> DOMAIN unload_tasks]
  /\ status_resp' = NoStatus
  /\ UNCHANGED <<config, load_lock, now, req, storeVars, searchVars, svcVars>>

\* time passes while the event loop runs
Tick ==
  /\ ~Stopped
  /\ now < MaxTime
  /\ now' = now + 1
  /\ UNCHANGED <<config, models, model_info, load_lock, unload_tasks, pc, req,
                 ev, status_resp, storeVars, searchVars, svcVars>>

InitMgr ==
  /\ docs = <<>>
  /\ docs_fts = <<>>
  /\ docs_vec = <<>>
  /\ last = NoCall
  /\ issued = {}
  /\ purged = {}
  /\ result = <<>>
  /\ call = NoSearch
  /\ repeated = FALSE
  /\ config \in ConfigInputs
  /\ ManagerIdle
  /\ RpcIdle
  /\ LifeIdle
  /\ ExtIdle

NextMgr ==
  \/ \E c \in Conns, slot \in Slots : LoadModelRequest(c, slot)
  \/ \E c \in Conns : LockAcquired(c)
  \/ \E c \in Conns : LoaderReturns(c)
  \/ \E c \in Conns : LoaderRaises(c)
  \/ \E c \in Conns, slot \in Slots : UnloadModelRequest(c, slot)
  \/ \E c \in Conns : StatusRequest(c)
  \/ \E slot \in Slots : DelayedUnload(slot)
  \/ Shutdown
  \/ Tick

SpecMgr == InitMgr /\ [][NextMgr]_vars

\* the event loop keeps running: the clock advances and a task whose sleep
\* is over is resumed
SpecMgrLive ==
  /\ InitMgr
  /\ [][NextMgr]_vars
  /\ WF_vars(Tick)
  /\ \A slot \in Slots : WF_vars(DelayedUnload(slot))

----------------------------------------------------------------------------
(* The daemon's connections.  _handle_client reads one frame at a time and *)
(* awaits _handle_request before it reads the next; a handler runs without *)
(* interruption up to its next await of ModelManager.load_model, whose     *)
(* outcome (an instance, or an exception) is the manager's to decide.      *)

\* mutant: a frame of exactly the limit refused as well
TooLongAtLimit(length) == length >= MAX_FRAME

\* if length > 10 * 1024 * 1024: break
TooLong(length) == length > MAX_FRAME

\* json.loads(data.decode()): the exception it raises, or "" for none
Decode(body) ==
  CASE body.kind = "bad_utf8" -> "UnicodeDecodeError"
    [] body.kind = "bad_json" -> "JSONDecodeError"
    [] OTHER -> ""

\* _handle_request up to the call of the handler: "response" (an error
\* response is returned), "escape" (an exception leaves _handle_request) or
\* "handler"; counted tells whether _request_count += 1 was reached
Dispatch(body) ==
  LET out(outcome, code, id, counted, raised) ==
        [outcome |-> outcome, code |-> code, id |-> id, counted |-> counted,
         raised |-> raised]
  IN CASE Decode(body) = "JSONDecodeError" ->
            out("response", PARSE_ERROR, NullId, FALSE, "JSONDecodeError")
       [] Decode(body) = "UnicodeDecodeError" ->
            out("escape", 0, NullId, FALSE, "UnicodeDecodeError")
       [] body.kind = "not_object" ->       \* request.get("id")
            out("escape", 0, NullId, FALSE, "AttributeError")
       [] body.method = "[]" ->             \* method not in self._handlers
            out("escape", 0, body.id, TRUE, "TypeError")
       [] body.method \notin Handlers ->
            out("response", METHOD_NOT_FOUND, body.id, TRUE, "")
       [] OTHER -> out("handler", 0, body.id, TRUE, "")

\* params.get(key) is absent or empty
Missing(params, key) == key \notin params.keys

\* a handler from its first line to its first await: it raises ValueError,
\* returns its result, or awaits load_model(slot)
HandlerStart(method, params) ==
  LET out(outcome, slot) == [outcome |-> outcome, slot |-> slot]
  IN CASE method = "search" ->
            IF Missing(params, "query") THEN out("raise", "")
            ELSE out("await", "embedder")
       [] method = "embed" ->
            IF Missing(params, "texts") THEN out("raise", "")
            ELSE out("await", "embedder")
       [] method = "rerank" ->
            IF Missing(params, "query") \/ Missing(params, "documents")
            THEN out("raise", "")
            ELSE out("await", "reranker")
       [] method = "load_model" ->
            IF Missing(params, "slot") THEN out("raise", "")
            ELSE out("await", params.slot)
       [] method = "unload_model" ->
            IF Missing(params, "slot") THEN out("raise", "")
            ELSE out("return", "")
       [] OTHER -> out("return", "")   \* ping, status

\* an inference: the model's role and who holds the instance it ran on,
\* "manager" (LoadedModel.instance) or "module" (core._reranker_instance)
Inference(role, on) == [role |-> role, on |-> on]

\* search_hybrid_reranked is called without reranker: get_reranker()
RerankerUsed == "module"

\* a handler from the return of its load_model call on: the outcomes, each
\* with the next slot awaited ("" when the handler returns), whether the
\* store was searched and the inferences run
HandlerResume(h) ==
  LET method == h.frame.body.method
      params == h.frame.body.params
      out(slot, searched, inference) ==
        [slot |-> slot, searched |-> searched, inference |-> inference]
      embed == Inference("embedder", "manager")
  IN CASE method = "search" /\ h.awaits = "embedder" ->
            IF params.mode = "bm25" THEN {out("", TRUE, {})}
            ELSE IF params.mode = "vector" THEN {out("", TRUE, {embed})}
            ELSE IF params.rerank THEN {out("reranker", FALSE, {embed})}
            ELSE {out("", TRUE, {embed})}
       [] method = "search" /\ h.awaits = "reranker" ->
            \* if not candidates: return [], before the reranker is used
            {out("", TRUE, {}),
             out("", TRUE, {Inference("reranker", RerankerUsed)})}
       [] method = "embed" -> {out("", FALSE, {embed})}
       [] method = "rerank" ->
            {out("", FALSE, {Inference("reranker", "manager")})}
       [] OTHER -> {out("", FALSE, {})}    \* load_model

\* the record of one step of the server on connection c
RpcEvent(kind, c, frame, passed, done, answered, code, id, raised, loads, searched, inference) ==
  [kind |-> kind, conn |-> c, frame |-> frame, n |-> dispatched'[c],
   passed |-> passed, counted |-> request_count' # request_count,
   done |-> done, answered |-> answered, code |-> code, id |-> id,
   raised |-> raised, loads |-> loads, searched |-> searched,
   inference |-> inference]

\* the server accepts a connection: a _handle_client task starts
Accept(c) ==
  /\ conn_state[c] = "new"
  /\ conn_state' = [conn_state EXCEPT ![c] = "open"]
  /\ UNCHANGED <<received, dispatched, written, handling, request_count,
                 reranker_instance>>
  /\ rpc_ev' = RpcEvent("accept", c, NoFrame, FALSE, FALSE, FALSE, 0, NullId,
                        "", {}, FALSE, {})
  /\ UNCHANGED <<storeVars, searchVars, mgrVars, lifeVars, extVars>>

\* the response is written and _handle_client goes back to reading
Respond(c, frame, code, id, raised, loads, searched, inference) ==
  /\ written' = [written EXCEPT ![c] = @ + 1]
  /\ handling' = [handling EXCEPT ![c] = NoRequest]
  /\ rpc_ev' = RpcEvent("response", c, frame, TRUE, TRUE, TRUE, code, id,
                        raised, loads, searched, inference)
  /\ UNCHANGED conn_state

\* an exception leaves _handle_request: except Exception in _handle_client
\* logs it, and finally closes the connection
Escape(c, frame, raised) ==
  /\ conn_state' = [conn_state EXCEPT ![c] = "closed"]
  /\ rpc_ev' = RpcEvent("escape", c, frame, TRUE, TRUE, FALSE, 0, NullId,
                        raised, {}, FALSE, {})
  /\ UNCHANGED <<written, handling>>

\* one turn of _handle_client's loop: a frame arrives, and the request
\* runs up to its response or to its handler's first await
ReadFrame(c, f) ==
  /\ conn_state[c] = "open"
  /\ handling[c].awaits = ""
  /\ received[c] < MaxFrames
  /\ received' = [received EXCEPT ![c] = @ + 1]
  /\ IF TooLong(f.length)
     THEN /\ conn_state' = [conn_state EXCEPT ![c] = "closed"]
          /\ UNCHANGED <<dispatched, written, handling, request_count>>
          /\ rpc_ev' = RpcEvent("drop", c, f, FALSE, TRUE, FALSE, 0, NullId,
                                "", {}, FALSE, {})
     ELSE LET d == Dispatch(f.body)
              h == HandlerStart(f.body.method, f.body.params)
          IN /\ dispatched' = [dispatched EXCEPT ![c] = @ + 1]
             /\ request_count' = IF d.counted THEN request_count + 1
                                 ELSE request_count
             /\ CASE d.outcome = "escape" -> Escape(c, f, d.raised)
                  [] d.outcome = "response" ->
                       Respond(c, f, d.code, d.id, d.raised, {}, FALSE, {})
                  [] h.outcome = "raise" ->
                       Respond(c, f, SERVER_ERROR, d.id, "ValueError", {},
                               FALSE, {})
                  [] h.outcome = "return" ->
                       Respond(c, f, 0, d.id, "", {}, FALSE, {})
                  [] OTHER ->
                       /\ handling' = [handling EXCEPT ![c] =
                            [frame |-> f, awaits |-> h.slot,
                             loads |-> {h.slot}, inference |-> {}]]
                       /\ rpc_ev' = RpcEvent("await", c, f, TRUE, FALSE, FALSE,
                                             0, NullId, "", {h.slot}, FALSE, {})
                       /\ UNCHANGED <<conn_state, written>>
  /\ UNCHANGED reranker_instance
  /\ UNCHANGED <<storeVars, searchVars, mgrVars, lifeVars, extVars>>

\* the load_model call a handler awaits returns the slot's LoadedModel
LoadReturns(c) ==
  /\ handling[c].awaits # ""
  /\ UNCHANGED <<received, dispatched, request_count>>
  /\ \E o \in HandlerResume(handling[c]) :
       LET h == handling[c]
           inference == h.inference \cup o.inference
       IN /\ reranker_instance' =
               (reranker_instance \/ Inference("reranker", "module") \in o.inference)
          /\ IF o.slot # ""
             THEN /\ handling' = [handling EXCEPT ![c] =
                       [frame |-> h.frame, awaits |-> o.slot,
                        loads |-> h.loads \cup {o.slot},
                        inference |-> inference]]
                  /\ rpc_ev' = RpcEvent("await", c, h.frame, TRUE, FALSE, FALSE,
                                        0, NullId, "", h.loads \cup {o.slot},
                                        FALSE, inference)
                  /\ UNCHANGED <<conn_state, written>>
             ELSE Respond(c, h.frame, 0, h.frame.body.id, "", h.loads,
                          o.searched, inference)
  /\ UNCHANGED <<storeVars, searchVars, mgrVars, lifeVars, extVars>>

\* the load_model call a handler awaits raises: except Exception in
\* _handle_request
LoadRaises(c) ==
  /\ handling[c].awaits # ""
  /\ UNCHANGED <<received, dispatched, request_count, reranker_instance>>
  /\ Respond(c, handling[c].frame, SERVER_ERROR, handling[c].frame.body.id,
             "RuntimeError", handling[c].loads, FALSE, handling[c].inference)
  /\ UNCHANGED <<storeVars, searchVars, mgrVars, lifeVars, extVars>>

\* the client closes its connection between two requests: readexactly
\* raises IncompleteReadError and _handle_client ends
ClientCloses(c) ==
  /\ conn_state[c] = "open"
  /\ handling[c].awaits = ""
  /\ conn_state' = [conn_state EXCEPT ![c] = "closed"]
  /\ UNCHANGED <<received, dispatched, written, handling, request_count,
                 reranker_instance>>
  /\ rpc_ev' = RpcEvent("eof", c, NoFrame, FALSE, FALSE, FALSE, 0, NullId, "",
                        {}, FALSE, {})
  /\ UNCHANGED <<storeVars, searchVars, mgrVars, lifeVars, extVars>>

InitRpc ==
  /\ docs = <<>>
  /\ docs_fts = <<>>
  /\ docs_vec = <<>>
  /\ last = NoCall
  /\ issued = {}
  /\ purged = {}
  /\ result = <<>>
  /\ call = NoSearch
  /\ repeated = FALSE
  /\ config = DefaultConfig
  /\ ManagerIdle
  /\ RpcIdle
  /\ LifeIdle
  /\ ExtIdle

NextRpc ==
  \/ \E c \in Conns : Accept(c)
  \/ \E c \in Conns, f \in Frames : ReadFrame(c, f)
  \/ \E c \in Conns : LoadReturns(c)
  \/ \E c \in Conns : LoadRaises(c)
  \/ \E c \in Conns : ClientCloses(c)

SpecRpc == InitRpc /\ [][NextRpc]_vars

----------------------------------------------------------------------------
(* The daemon's life: cli daemon start, FastSearchDaemon.start and stop,   *)
(* for two processes given the same configuration, hence one socket path   *)
(* and one PID file.  A process is "off", "starting" (the cli found no     *)
(* running daemon), "bound", "preloading", "serving" (start awaits the     *)
(* shutdown event), "wait_closed" (stop awaits Server.wait_closed) or      *)
(* "exited".  A process runs each phase once.                              *)

\* the record of one step of process i
LifeEvent(kind, i, alive) == [kind |-> kind, by |-> i, alive |-> alive]

\* self.config.models.items(): the slots in the order of the configuration
ConfigOrder == <<"embedder", "reranker">>

\* the slots start pre-loads, in order
PinnedSlots == SelectSeq(ConfigOrder, IsPinned)

\* the process's event loop runs and its server answers on the socket path
Serving(j) ==
  /\ inst[j].phase \in {"preloading", "serving"}
  /\ inst[j].listening
  /\ sock_file = j

\* get_daemon_status: the status answer of the daemon on the socket path,
\* or None: no socket file, nobody listening behind it, or no answer within
\* the socket timeout of 2 seconds because the daemon's event loop is held
\* by a handler
StatusAnswered ==
  /\ sock_file # 0
  /\ inst[sock_file].listening
  /\ ~inst[sock_file].busy

\* cli daemon start: "already running" and return, or go on to run_daemon
DaemonStart(i) ==
  /\ inst[i].phase = "off"
  /\ inst' = [inst EXCEPT ![i].phase =
                IF StatusAnswered THEN "off" ELSE "starting"]
  /\ life_ev' = LifeEvent(IF StatusAnswered THEN "refused" ELSE "start", i,
                          \E j \in Inst \ {i} : Serving(j))
  /\ UNCHANGED <<sock_file, pid_file, clients, wait_closed_waits>>
  /\ UNCHANGED <<config, storeVars, searchVars, models, model_info, load_lock,
                 unload_tasks, now, pc, req, ev, status_resp, rpcVars, extVars>>

\* start: os.unlink(socket_path) if it exists, then start_unix_server binds
\* a new socket at the path and listens
Bind(i) ==
  /\ inst[i].phase = "starting"
  /\ sock_file' = i
  /\ inst' = [inst EXCEPT ![i].phase = "bound", ![i].listening = TRUE]
  /\ life_ev' = LifeEvent("bind", i, \E j \in Inst \ {i} : Serving(j))
  /\ UNCHANGED <<pid_file, clients, wait_closed_waits>>
  /\ UNCHANGED <<config, storeVars, searchVars, models, model_info, load_lock,
                 unload_tasks, now, pc, req, ev, status_resp, rpcVars, extVars>>

\* start: Path(pid_path).write_text(str(os.getpid())), and the loop over
\* the slots to pre-load is entered
WritePid(i) ==
  /\ inst[i].phase = "bound"
  /\ pid_file' = i
  /\ inst' = [inst EXCEPT ![i].wrote_pid = TRUE,
                          ![i].todo = PinnedSlots,
                          ![i].phase = IF PinnedSlots = <<>> THEN "serving"
                                       ELSE "preloading"]
  /\ life_ev' = LifeEvent("write_pid", i, \E j \in Inst \ {i} : Serving(j))
  /\ UNCHANGED <<sock_file, clients, wait_closed_waits>>
  /\ UNCHANGED <<config, storeVars, searchVars, models, model_info, load_lock,
                 unload_tasks, now, pc, req, ev, status_resp, rpcVars, extVars>>

\* mutant: the first failure ends the pre-loading
AfterFailureGiveUp(todo) == <<>>

\* except Exception as e: logger.error(...), and the loop goes on
AfterFailure(todo) == Tail(todo)

\* one turn of start's pre-load loop: load_model(slot) returns or raises
Preload(i) ==
  /\ inst[i].phase = "preloading"
  /\ ~inst[i].busy
  /\ \E ok \in BOOLEAN :
       LET slot == Head(inst[i].todo)
           rest == IF ok THEN Tail(inst[i].todo)
                   ELSE AfterFailure(inst[i].todo)
       IN /\ inst' = [inst EXCEPT
                 ![i].todo = rest,
                 ![i].loaded = IF ok THEN @ \cup {slot} ELSE @,
                 ![i].failed = IF ok THEN @ ELSE @ \cup {slot},
                 ![i].phase = IF rest = <<>> THEN "serving" ELSE "preloading"]
          /\ life_ev' = LifeEvent(IF ok THEN "preloaded" ELSE "preload_failed",
                                  i, \E j \in Inst \ {i} : Serving(j))
  /\ UNCHANGED <<sock_file, pid_file, clients, wait_closed_waits>>
  /\ UNCHANGED <<config, storeVars, searchVars, models, model_info, load_lock,
                 unload_tasks, now, pc, req, ev, status_resp, rpcVars, extVars>>

\* a client connects to the socket path: the process listening behind the
\* socket file accepts
Connect(i) ==
  /\ sock_file = i
  /\ inst[i].listening
  /\ clients[i] < MaxClients
  /\ clients' = [clients EXCEPT ![i] = @ + 1]
  /\ life_ev' = LifeEvent("connect", i, FALSE)
  /\ UNCHANGED <<inst, sock_file, pid_file, wait_closed_waits>>
  /\ UNCHANGED <<config, storeVars, searchVars, models, model_info, load_lock,
                 unload_tasks, now, pc, req, ev, status_resp, rpcVars, extVars>>

\* a client closes its connection
Disconnect(i) ==
  /\ clients[i] > 0
  /\ clients' = [clients EXCEPT ![i] = @ - 1]
  /\ life_ev' = LifeEvent("disconnect", i, FALSE)
  /\ UNCHANGED <<inst, sock_file, pid_file, wait_closed_waits>>
  /\ UNCHANGED <<config, storeVars, searchVars, models, model_info, load_lock,
                 unload_tasks, now, pc, req, ev, status_resp, rpcVars, extVars>>

\* a handler runs an inference (instance.embed, instance.predict) in the
\* event loop's thread: nothing else of the process runs until it ends
InferenceBegins(i) ==
  /\ inst[i].phase \in {"preloading", "serving"}
  /\ clients[i] > 0
  /\ ~inst[i].busy
  /\ inst' = [inst EXCEPT ![i].busy = TRUE]
  /\ life_ev' = LifeEvent("busy", i, FALSE)
  /\ UNCHANGED <<sock_file, pid_file, clients, wait_closed_waits>>
  /\ UNCHANGED <<config, storeVars, searchVars, models, model_info, load_lock,
                 unload_tasks, now, pc, req, ev, status_resp, rpcVars, extVars>>

InferenceEnds(i) ==
  /\ inst[i].busy
  /\ inst' = [inst EXCEPT ![i].busy = FALSE]
  /\ life_ev' = LifeEvent("idle", i, FALSE)
  /\ UNCHANGED <<sock_file, pid_file, clients, wait_closed_waits>>
  /\ UNCHANGED <<config, storeVars, searchVars, models, model_info, load_lock,
                 unload_tasks, now, pc, req, ev, status_resp, rpcVars, extVars>>

\* reload_config with a file that names another socket_path and pid_path
\* (and the same models): self.config and model_manager.config replaced.
\* The server stays bound where start bound it.
ReloadConfig(i) ==
  /\ inst[i].phase = "serving"
  /\ sock_file = i
  /\ clients[i] > 0
  /\ ~inst[i].busy
  /\ ~inst[i].shutdown
  /\ ~inst[i].reloaded
  /\ inst' = [inst EXCEPT ![i].reloaded = TRUE]
  /\ life_ev' = LifeEvent("reload_config", i, FALSE)
  /\ UNCHANGED <<sock_file, pid_file, clients, wait_closed_waits>>
  /\ UNCHANGED <<config, storeVars, searchVars, models, model_info, load_lock,
                 unload_tasks, now, pc, req, ev, status_resp, rpcVars, extVars>>

\* the process has an event loop with the signal handlers installed
Running(i) == inst[i].phase \in {"starting", "bound", "preloading", "serving"}

\* _shutdown_event.set(): by SIGTERM or SIGINT, or by the shutdown handler
SetShutdown(i) ==
  /\ Running(i)
  /\ ~inst[i].shutdown
  /\ inst' = [inst EXCEPT ![i].shutdown = TRUE]
  /\ life_ev' = LifeEvent("set_shutdown", i, FALSE)
  /\ UNCHANGED <<sock_file, pid_file, clients, wait_closed_waits>>
  /\ UNCHANGED <<config, storeVars, searchVars, models, model_info, load_lock,
                 unload_tasks, now, pc, req, ev, status_resp, rpcVars, extVars>>

\* _shutdown_event.wait() returns and stop begins: self._server.close()
StopBegins(i) ==
  /\ inst[i].phase = "serving"
  /\ inst[i].shutdown
  /\ ~inst[i].busy
  /\ inst' = [inst EXCEPT ![i].phase = "wait_closed", ![i].listening = FALSE]
  /\ life_ev' = LifeEvent("server_close", i, FALSE)
  /\ UNCHANGED <<sock_file, pid_file, clients, wait_closed_waits>>
  /\ UNCHANGED <<config, storeVars, searchVars, models, model_info, load_lock,
                 unload_tasks, now, pc, req, ev, status_resp, rpcVars, extVars>>

\* await self._server.wait_closed() returns: at once, or, where the
\* interpreter's wait_closed waits for them, when no connection is open
WaitClosedDone(i) == wait_closed_waits => clients[i] = 0

\* stop's clean-up: the files at self.config.daemon.socket_path and
\* pid_path, as the configuration reads when stop runs, unlinked if they
\* exist.  After a reload that names other paths the PID file written by
\* start stays; the socket file start bound stays too, unless the
\* interpreter's Server.close() removes the socket file of its own server.
SocketFileAfterStop(i) ==
  IF ~inst[i].reloaded THEN {0}
  ELSE IF sock_file = i THEN {i, 0}
  ELSE {sock_file}

PidFileAfterStop(i) == IF inst[i].reloaded THEN pid_file ELSE 0

\* the rest of stop, and the end of the process: model_manager.shutdown(),
\* the socket and PID files unlinked if they exist, loop.close() and exit,
\* which closes the connections still open
StopCompletes(i) ==
  /\ inst[i].phase = "wait_closed"
  /\ WaitClosedDone(i)
  /\ inst' = [inst EXCEPT ![i].phase = "exited", ![i].loaded = {}]
  /\ sock_file' \in SocketFileAfterStop(i)
  /\ pid_file' = PidFileAfterStop(i)
  /\ clients' = [clients EXCEPT ![i] = 0]
  /\ life_ev' = LifeEvent("exit", i, FALSE)
  /\ UNCHANGED wait_closed_waits
  /\ UNCHANGED <<config, storeVars, searchVars, models, model_info, load_lock,
                 unload_tasks, now, pc, req, ev, status_resp, rpcVars, extVars>>

InitLife ==
  /\ docs = <<>>
  /\ docs_fts = <<>>
  /\ docs_vec = <<>>
  /\ last = NoCall
  /\ issued = {}
  /\ purged = {}
  /\ result = <<>>
  /\ call = NoSearch
  /\ repeated = FALSE
  /\ config \in LifeConfigs
  /\ ManagerIdle
  /\ RpcIdle
  /\ inst = [i \in Inst |-> Off]
  /\ sock_file = 0
  /\ pid_file = 0
  /\ clients = [i \in Inst |-> 0]
  /\ wait_closed_waits \in BOOLEAN
  /\ life_ev = NoLifeEvent
  /\ ExtIdle

NextLife ==
  \/ \E i \in Inst : DaemonStart(i)
  \/ \E i \in Inst : Bind(i)
  \/ \E i \in Inst : WritePid(i)
  \/ \E i \in Inst : Preload(i)
  \/ \E i \in Inst : Connect(i)
  \/ \E i \in Inst : Disconnect(i)
  \/ \E i \in Inst : InferenceBegins(i)
  \/ \E i \in Inst : InferenceEnds(i)
  \/ \E i \in Inst : ReloadConfig(i)
  \/ \E i \in Inst : SetShutdown(i)
  \/ \E i \in Inst : StopBegins(i)
  \/ \E i \in Inst : StopCompletes(i)

SpecLife == InitLife /\ [][NextLife]_vars

\* every step a process takes by itself is taken: its event loop runs (a
\* coroutine that is ready again and again between two inferences gets its
\* turn) and an inference ends; clients and signals come as they please
SpecLifeLive ==
  /\ InitLife
  /\ [][NextLife]_vars
  /\ \A i \in Inst :
       /\ WF_vars(Bind(i))
       /\ WF_vars(WritePid(i))
       /\ SF_vars(Preload(i))
       /\ WF_vars(InferenceEnds(i))
       /\ SF_vars(StopBegins(i))
       /\ WF_vars(StopCompletes(i))

----------------------------------------------------------------------------
(* The daemon's event loop                                                 *)
(* asyncio runs the coroutines of all connections in one thread: a         *)
(* coroutine runs from one suspension to the next with nothing in between. *)
(* A handler is suspended in load_model only: on _load_lock ("waiting") or *)
(* on the executor that runs the loader ("loading").  instance.embed,      *)
(* instance.predict and the searches are plain calls: the handler is       *)
(* "inferring" and holds the thread until the call returns.                *)

\* the record of an answer, or of the end of an inference
LoopEvent(kind, c, slot, during, held) ==
  [kind |-> kind, conn |-> c, slot |-> slot, during |-> during, held |-> held]

\* mutant: the inference runs in a worker thread
LoopFreeAlways == TRUE

\* the thread of the event loop is not inside a handler's inference call
LoopFree == \A c \in Conns : loop.task[c].at # "inferring"

\* the connection whose inference holds the thread, or 0
InferringConn ==
  IF LoopFree THEN 0 ELSE CHOOSE c \in Conns : loop.task[c].at = "inferring"

\* the slot a handler passes to its first load_model call
SlotOf(r) ==
  CASE r.method = "load_model" -> r.slot
    [] r.method = "rerank" -> "reranker"
    [] OTHER -> "embedder"

\* the handler from the return of load_model(slot) on: _handle_load_model
\* returns; the others touch() the record and call the inference at once
\* (search after its second load_model goes to search_hybrid_reranked)
Continue(method, slot, rerank) ==
  IF method = "load_model" THEN LoopTaskIdle
  ELSE [at |-> "inferring", method |-> method,
        slot |-> IF method = "search" /\ slot = "reranker" THEN RerankerUsed
                 ELSE slot,
        rerank |-> rerank, waited |-> FALSE]

\* await load_model(slot) up to its return or its first suspension: the
\* handler's position, the map and the lock after it
AwaitLoadModel(c, method, slot, rerank) ==
  IF loop.lock # 0
    THEN {[task |-> [at |-> "waiting", method |-> method, slot |-> slot,
                     rerank |-> rerank, waited |-> FALSE],
           models |-> loop.models, lock |-> loop.lock]}
  ELSE IF slot \in SeqToSet(loop.models)
    THEN {[task |-> Continue(method, slot, rerank),
           models |-> MoveToEnd(loop.models, slot), lock |-> 0]}
  ELSE {[task |-> [at |-> "loading", method |-> method, slot |-> slot,
                   rerank |-> rerank, waited |-> FALSE],
         models |-> o.models, lock |-> c] :
          o \in EnsureMemoryBudget(loop.models, estimate_model_memory(slot))}

\* a client writes a request on its connection
ClientSends(c, r) ==
  /\ loop.task[c].at = "idle"
  /\ loop.pending[c].method = "none"
  /\ loop' = [loop EXCEPT !.pending[c] =
                [method |-> r.method, slot |-> r.slot, rerank |-> r.rerank,
                 during |-> InferringConn]]
  /\ UNCHANGED <<storeVars, searchVars, mgrVars, rpcVars, lifeVars,
                 client, handle>>

\* _handle_client reads the request and _handle_request runs the handler
\* up to its response or its first suspension
Serve(c) ==
  /\ LoopFree
  /\ loop.task[c].at = "idle"
  /\ loop.pending[c].method # "none"
  /\ LET r == loop.pending[c]
         answer == LoopEvent("answered", c, r.slot, r.during, FALSE)
     IN CASE r.method = "ping" ->
               loop' = [loop EXCEPT !.pending[c] = NoLoopRequest,
                                    !.ev = answer]
          [] r.method = "unload_model" ->
               loop' = [loop EXCEPT !.pending[c] = NoLoopRequest,
                                    !.models = unload_model(@, r.slot),
                                    !.ev = answer]
          [] OTHER ->
               \E o \in AwaitLoadModel(c, r.method, SlotOf(r), r.rerank) :
                 loop' = [loop EXCEPT
                            !.pending[c] = NoLoopRequest,
                            !.task[c] = o.task,
                            !.models = o.models,
                            !.lock = o.lock,
                            !.ev = IF o.task.at = "idle" THEN answer ELSE @]
  /\ UNCHANGED <<storeVars, searchVars, mgrVars, rpcVars, lifeVars,
                 client, handle>>

\* _load_lock is free: a handler suspended on it acquires it and goes on
LockWake(c) ==
  /\ LoopFree
  /\ loop.task[c].at = "waiting"
  /\ loop.lock = 0
  /\ LET t == loop.task[c]
     IN \E o \in AwaitLoadModel(c, t.method, t.slot, t.rerank) :
          loop' = [loop EXCEPT
                     !.task[c] = [o.task EXCEPT !.waited = o.task.at # "idle"],
                     !.models = o.models,
                     !.lock = o.lock,
                     !.ev = IF o.task.at = "idle"
                            THEN LoopEvent("answered", c, t.slot, 0, FALSE)
                            ELSE @]
  /\ UNCHANGED <<storeVars, searchVars, mgrVars, rpcVars, lifeVars,
                 client, handle>>

\* the executor's loader call returned an instance: load_model registers
\* the slot, releases the lock and returns to the handler
LoaderDone(c) ==
  /\ LoopFree
  /\ loop.task[c].at = "loading"
  /\ loop.task[c].slot \in LoadableSlots \cap DOMAIN config.models
  /\ LET t == loop.task[c]
         next == Continue(t.method, t.slot, t.rerank)
     IN loop' = [loop EXCEPT
                   !.models = Register(@, t.slot),
                   !.task[c] = next,
                   !.lock = 0,
                   !.ev = IF next.at = "idle"
                          THEN LoopEvent("answered", c, t.slot, 0, FALSE)
                          ELSE @]
  /\ UNCHANGED <<storeVars, searchVars, mgrVars, rpcVars, lifeVars,
                 client, handle>>

\* the loader call raised: the error is the handler's answer
LoaderFails(c) ==
  /\ LoopFree
  /\ loop.task[c].at = "loading"
  /\ loop' = [loop EXCEPT
                !.task[c] = LoopTaskIdle,
                !.lock = 0,
                !.ev = LoopEvent("error", c, loop.task[c].slot, 0, FALSE)]
  /\ UNCHANGED <<storeVars, searchVars, mgrVars, rpcVars, lifeVars,
                 client, handle>>

\* the inference call returns; the handler that asked for a reranked search
\* goes on to load_model("reranker"), the others answer
InferenceReturns(c) ==
  /\ loop.task[c].at = "inferring"
  /\ LET t == loop.task[c]
         done == LoopEvent("inferred", c, t.slot, 0,
                           t.slot = RerankerUsed
                             \/ t.slot \in SeqToSet(loop.models))
     IN IF t.method = "search" /\ t.slot = "embedder" /\ t.rerank
          THEN \E o \in AwaitLoadModel(c, "search", "reranker", FALSE) :
                 loop' = [loop EXCEPT !.task[c] = o.task,
                                      !.models = o.models,
                                      !.lock = o.lock,
                                      !.ev = done]
          ELSE loop' = [loop EXCEPT !.task[c] = LoopTaskIdle, !.ev = done]
  /\ UNCHANGED <<storeVars, searchVars, mgrVars, rpcVars, lifeVars,
                 client, handle>>

\* the _delayed_unload task of a slot wakes from its sleep and finds the
\* slot idle for long enough (the clock is not part of this model)
IdleUnload(slot) ==
  /\ LoopFree
  /\ slot \in SeqToSet(loop.models)
  /\ config.models[slot].keep_loaded = "on_demand"
  /\ config.models[slot].idle_timeout_seconds > 0
  /\ loop' = [loop EXCEPT !.models = unload_model(@, slot)]
  /\ UNCHANGED <<storeVars, searchVars, mgrVars, rpcVars, lifeVars,
                 client, handle>>

InitLoop ==
  /\ docs = <<>>
  /\ docs_fts = <<>>
  /\ docs_vec = <<>>
  /\ last = NoCall
  /\ issued = {}
  /\ purged = {}
  /\ result = <<>>
  /\ call = NoSearch
  /\ repeated = FALSE
  /\ config \in ConfigInputs
  /\ ManagerIdle
  /\ RpcIdle
  /\ LifeIdle
  /\ ExtIdle

NextLoop ==
  \/ \E c \in Conns, r \in LoopRequests : ClientSends(c, r)
  \/ \E c \in Conns : Serve(c)
  \/ \E c \in Conns : LockWake(c)
  \/ \E c \in Conns : LoaderDone(c)
  \/ \E c \in Conns : LoaderFails(c)
  \/ \E c \in Conns : InferenceReturns(c)
  \/ \E slot \in LoadableSlots : IdleUnload(slot)

SpecLoop == InitLoop /\ [][NextLoop]_vars

----------------------------------------------------------------------------
(* FastSearchClient: one client object, its socket and the daemon's end of *)
(* the connection.  The daemon answers the requests of a connection in the *)
(* order they came.  Every request carries "id": 1 and the client never    *)
(* looks at the id of a response; the numbers in client.wire and           *)
(* client.stream are history, the call a request came from.                *)

MaxCalls == 3       \* calls made on one client object

ClientEvent(kind, n, of) == [kind |-> kind, call |-> n, of |-> of]

\* mutant: socket.timeout handled like a lost connection
AfterTimeoutDisconnect(sock) == "none"

\* _send_request: socket.timeout is none of the exceptions it catches, so
\* the exception leaves the method and self._sock is kept
AfterTimeout(sock) == sock

\* a public method calls _send_request: _connect when there is no socket,
\* then the request is written; on a socket the daemon has closed sendall
\* raises BrokenPipeError and the client disconnects
ClientCall ==
  /\ client.call = 0
  /\ client.count < MaxCalls
  /\ LET n == client.count + 1
     IN client' =
          IF client.sock = "peer_closed"
            THEN [client EXCEPT !.count = n, !.sock = "none", !.wire = <<>>,
                                !.stream = <<>>,
                                !.ev = ClientEvent("lost", n, 0)]
          ELSE IF client.sock = "none"
            THEN [client EXCEPT !.count = n, !.sock = "open", !.wire = <<n>>,
                                !.stream = <<>>, !.call = n]
          ELSE [client EXCEPT !.count = n, !.wire = Append(@, n), !.call = n]
  /\ UNCHANGED <<storeVars, searchVars, mgrVars, rpcVars, lifeVars,
                 loop, handle>>

\* the daemon writes the response to the oldest request of the connection,
\* a result or an error
DaemonAnswers ==
  /\ client.sock = "open"
  /\ client.wire # <<>>
  /\ \E err \in BOOLEAN :
       client' = [client EXCEPT
                    !.stream = Append(@, [of |-> Head(client.wire),
                                          error |-> err]),
                    !.wire = Tail(@)]
  /\ UNCHANGED <<storeVars, searchVars, mgrVars, rpcVars, lifeVars,
                 loop, handle>>

\* the daemon closes its end (shutdown, a frame it refuses, an exception
\* in _handle_client): what it has written can still be read
DaemonCloses ==
  /\ client.sock = "open"
  /\ client' = [client EXCEPT !.sock = "peer_closed", !.wire = <<>>]
  /\ UNCHANGED <<storeVars, searchVars, mgrVars, rpcVars, lifeVars,
                 loop, handle>>

\* recv: the next response of the stream is read whole and decoded; its
\* result is returned, or FastSearchError raised for an error response
ClientReceives ==
  /\ client.call # 0
  /\ client.stream # <<>>
  /\ client' = [client EXCEPT
                  !.ev = ClientEvent(IF Head(client.stream).error
                                     THEN "rpc_error" ELSE "returned",
                                     client.call, Head(client.stream).of),
                  !.stream = Tail(@),
                  !.call = 0]
  /\ UNCHANGED <<storeVars, searchVars, mgrVars, rpcVars, lifeVars,
                 loop, handle>>

\* recv: nothing arrives within self.timeout seconds, socket.timeout
ClientTimesOut ==
  /\ client.call # 0
  /\ client.sock = "open"
  /\ client.stream = <<>>
  /\ client' = [client EXCEPT
                  !.sock = AfterTimeout(@),
                  !.wire = IF AfterTimeout(client.sock) = "none" THEN <<>>
                           ELSE @,
                  !.ev = ClientEvent("timeout", client.call, 0),
                  !.call = 0]
  /\ UNCHANGED <<storeVars, searchVars, mgrVars, rpcVars, lifeVars,
                 loop, handle>>

\* recv returns b"": FastSearchError("Connection closed ..."), raised
\* inside the try and not caught there, so self._sock is kept
ClientSeesClosed ==
  /\ client.call # 0
  /\ client.sock = "peer_closed"
  /\ client.stream = <<>>
  /\ client' = [client EXCEPT
                  !.ev = ClientEvent("closed", client.call, 0),
                  !.call = 0]
  /\ UNCHANGED <<storeVars, searchVars, mgrVars, rpcVars, lifeVars,
                 loop, handle>>

\* close(), or the end of a with block: _disconnect
ClientClose ==
  /\ client.call = 0
  /\ client.sock # "none"
  /\ client' = [client EXCEPT !.sock = "none", !.wire = <<>>,
                              !.stream = <<>>,
                              !.ev = ClientEvent("close", 0, 0)]
  /\ UNCHANGED <<storeVars, searchVars, mgrVars, rpcVars, lifeVars,
                 loop, handle>>

InitClient ==
  /\ docs = <<>>
  /\ docs_fts = <<>>
  /\ docs_vec = <<>>
  /\ last = NoCall
  /\ issued = {}
  /\ purged = {}
  /\ result = <<>>
  /\ call = NoSearch
  /\ repeated = FALSE
  /\ config = DefaultConfig
  /\ ManagerIdle
  /\ RpcIdle
  /\ LifeIdle
  /\ ExtIdle

NextClient ==
  \/ ClientCall
  \/ DaemonAnswers
  \/ DaemonCloses
  \/ ClientReceives
  \/ ClientTimesOut
  \/ ClientSeesClosed
  \/ ClientClose

SpecClient == InitClient /\ [][NextClient]_vars

----------------------------------------------------------------------------
(* Two SearchDB handles on one database file: one indexes, one deletes.    *)
(* Each handle has its own connection and neither opens a transaction, so  *)
(* the unit that is atomic is the single statement (with its trigger), and *)
(* the statements of the two calls interleave in any order.                *)

\* what the indexing handle is given: well-formed chunks of one source
HandleBatches ==
  UNION {
    {[k \in 1..n |-> Item(src, k - 1, CHOOSE c \in Contents : TRUE,
                          CHOOSE e \in GoodEmbeddings : TRUE)] :
       src \in Sources} :
    n \in 1..MaxBatch}

\* INSERT INTO docs for the first of items, and last_insert_rowid()
HandleInsertDocs(op, items) ==
  /\ NextRowid(docs) <= MaxId
  /\ docs' = InsertDocs(docs, Head(items))
  /\ docs_fts' = docs_ai(docs_fts, NextRowid(docs), Head(items).content)
  /\ handle' = [handle EXCEPT
                  !.index = [at |-> "insert_vec", op |-> op, items |-> items,
                             doc_id |-> NextRowid(docs)]]
  /\ UNCHANGED docs_vec
  /\ UNCHANGED <<last, issued, purged, searchVars, mgrVars, rpcVars, lifeVars,
                 loop, client>>

\* index_document(item) or index_batch(items) is called and runs its first
\* statement
HandleIndexCall(op, items) ==
  /\ handle.index.at = "idle"
  /\ op = "index_document" => Len(items) = 1
  /\ HandleInsertDocs(op, items)

\* the loop of index_batch comes to its next item
HandleIndexNext ==
  /\ handle.index.at = "insert_docs"
  /\ HandleInsertDocs(handle.index.op, handle.index.items)

\* INSERT INTO docs_vec (id, embedding) with the id the handle has read;
\* the call returns after its last item, or raises
HandleInsertVec ==
  /\ handle.index.at = "insert_vec"
  /\ LET h == handle.index
         item == Head(h.items)
         rest == Tail(h.items)
         ok == VecInsertOk(docs_vec, h.doc_id, item.embedding)
     IN /\ docs_vec' = IF ok THEN InsertVec(docs_vec, h.doc_id, item.embedding)
                        ELSE docs_vec
        /\ handle' =
             IF ok /\ rest # <<>>
               THEN [handle EXCEPT
                       !.index = [at |-> "insert_docs", op |-> h.op,
                                  items |-> rest, doc_id |-> 0]]
             ELSE [handle EXCEPT
                     !.index = NoIndexCall,
                     !.ev = [op |-> h.op, ok |-> ok, count |-> 0,
                             removed |-> 0]]
  /\ UNCHANGED <<docs, docs_fts>>
  /\ UNCHANGED <<last, issued, purged, searchVars, mgrVars, rpcVars, lifeVars,
                 loop, client>>

\* delete_source(source) is called: SELECT id FROM docs WHERE source = ?
\* read into a list; an empty list is the end of the call
HandleDeleteCall(source) ==
  /\ handle.delete.at = "idle"
  /\ LET ids == {i \in DOMAIN docs : docs[i].source = source}
     IN handle' =
          IF ids = {}
            THEN [handle EXCEPT
                    !.ev = [op |-> "delete_source", ok |-> TRUE, count |-> 0,
                            removed |-> 0]]
          ELSE [handle EXCEPT
                  !.delete = [at |-> "delete_vec", source |-> source,
                              ids |-> ids, found |-> Cardinality(ids)]]
  /\ UNCHANGED <<docs, docs_fts, docs_vec>>
  /\ UNCHANGED <<last, issued, purged, searchVars, mgrVars, rpcVars, lifeVars,
                 loop, client>>

\* one turn of the loop: DELETE FROM docs_vec WHERE id = ?
HandleDeleteVec ==
  /\ handle.delete.at = "delete_vec"
  /\ LET id == CHOOSE i \in handle.delete.ids :
                  \A j \in handle.delete.ids : i <= j
         rest == handle.delete.ids \ {id}
     IN /\ docs_vec' = Remove(docs_vec, {id})
        /\ handle' = [handle EXCEPT
                        !.delete.ids = rest,
                        !.delete.at = IF rest = {} THEN "delete_docs"
                                      ELSE "delete_vec"]
  /\ UNCHANGED <<docs, docs_fts>>
  /\ UNCHANGED <<last, issued, purged, searchVars, mgrVars, rpcVars, lifeVars,
                 loop, client>>

\* DELETE FROM docs WHERE source = ? (the trigger docs_ad clears the FTS
\* rows), and the call returns len(ids)
HandleDeleteDocs ==
  /\ handle.delete.at = "delete_docs"
  /\ LET kept == DeleteDocsWhere(docs, handle.delete.source)
         gone == DOMAIN docs \ DOMAIN kept
     IN /\ docs' = kept
        /\ docs_fts' = docs_ad(docs_fts, gone)
        /\ handle' = [handle EXCEPT
                        !.delete = NoDeleteCall,
                        !.ev = [op |-> "delete_source", ok |-> TRUE,
                                count |-> handle.delete.found,
                                removed |-> Cardinality(gone)]]
  /\ UNCHANGED docs_vec
  /\ UNCHANGED <<last, issued, purged, searchVars, mgrVars, rpcVars, lifeVars,
                 loop, client>>

InitHandles ==
  /\ docs = <<>>
  /\ docs_fts = <<>>
  /\ docs_vec = <<>>
  /\ last = NoCall
  /\ issued = {}
  /\ purged = {}
  /\ result = <<>>
  /\ call = NoSearch
  /\ repeated = FALSE
  /\ config = DefaultConfig
  /\ ManagerIdle
  /\ RpcIdle
  /\ LifeIdle
  /\ ExtIdle

NextHandles ==
  \/ \E op \in {"index_document", "index_batch"}, items \in HandleBatches :
       HandleIndexCall(op, items)
  \/ HandleIndexNext
  \/ HandleInsertVec
  \/ \E src \in Sources : HandleDeleteCall(src)
  \/ HandleDeleteVec
  \/ HandleDeleteDocs

SpecHandles == InitHandles /\ [][NextHandles]_vars

----------------------------------------------------------------------------
(* Properties of the model manager, checked under SpecMgr *)

\* C10: a status request that follows a successful load_model(s) lists s
\* with idle_seconds >= 0; one that follows an unload_model(s) of a slot
\* that is not keep_loaded = always does not list s.
C10_StatusAfterLoadAndUnload ==
  status_resp.taken =>
    /\ ev.kind = "load_ok" =>
         /\ ev.slot \in DOMAIN status_resp.loaded_models
         /\ status_resp.loaded_models[ev.slot].idle_seconds >= 0
    /\ (ev.kind = "unload_ok" /\ ~IsPinned(ev.slot)) =>
         ev.slot \notin DOMAIN status_resp.loaded_models

\* C10 witness: a loaded slot was unloaded on request, time has passed since
\* another slot was loaded, and status was asked
C10_Witness ==
  /\ status_resp.taken
  /\ ev.kind = "unload_ok"
  /\ ev.removed
  /\ \E s \in DOMAIN status_resp.loaded_models :
       status_resp.loaded_models[s].idle_seconds > 0

\* the step is one of the manager's, not the clock's and not a status
\* request (those leave ev as the step before set it)
ManagerStep == now' = now /\ ~status_resp'.taken

\* C11: a loaded slot configured keep_loaded = always leaves the loaded
\* set by shutdown only: no unload_model request, no eviction and no idle
\* timer removes it.
C11_PinnedLeavesOnlyByShutdown ==
  [][\A s \in SeqToSet(models) :
       (IsPinned(s) /\ s \notin SeqToSet(models')) => ev'.kind = "shutdown"]_vars

\* C11 witness: an unload_model request for a loaded pinned slot has been
\* answered and the slot is still loaded
C11_Witness ==
  /\ ev.kind = "unload_ok"
  /\ IsPinned(ev.slot)
  /\ ev.slot \in SeqToSet(models)

\* the slots of ms that the eviction loop may pick
EvictableSlots(ms) == {ms[n] : n \in Evictable(ms)}

\* C12: every slot that load_model evicts is, at that moment, a least
\* recently touched one among the loaded slots that are not pinned.
C12_VictimIsLeastRecentlyUsed ==
  [][(ManagerStep /\ ev'.kind = "load_started") =>
       \A k \in 1..Len(ev'.victims) :
         \A s \in EvictableSlots(models) \ {ev'.victims[j].slot : j \in 1..k} :
           model_info[s].last_used >= ev'.victims[k].last_used]_vars

\* C12 witness: two slots were evicted, and the first to go was loaded
\* after the second: a later hit had moved the second behind it
C12_Witness ==
  /\ ev.kind = "load_started"
  /\ Len(ev.victims) = 2
  /\ ev.victims[1].loaded_at > ev.victims[2].loaded_at
  /\ ev.victims[1].last_used < ev.victims[2].last_used

\* the summed estimates of the loaded slots
RECURSIVE SumMemory(_)
SumMemory(ms) ==
  IF ms = <<>> THEN 0 ELSE model_info[Head(ms)].memory_mb + SumMemory(Tail(ms))

NoPinnedSlot == \A s \in DOMAIN config.models : ~IsPinned(s)

\* C13 as stated: with no pinned slot, when a load_model call has returned
\* the summed memory_mb of the loaded slots is at most max_ram_mb unless
\* the slot just loaded is the only evictable one.
C13_EstimatesWithinBudget ==
  (NoPinnedSlot /\ ev.kind = "load_ok") =>
    \/ SumMemory(models) <= config.max_ram_mb
    \/ EvictableSlots(models) \ {ev.slot} = {}

\* C13 amended: when the eviction pass of load_model ends, the last
\* measured resident size plus the estimate of the slot to load is at most
\* max_ram_mb unless no evictable slot is loaded.
C13_MeasuredWithinBudget ==
  ev.kind = "load_started" =>
    \/ ev.usage + estimate_model_memory(ev.slot) <= config.max_ram_mb
    \/ EvictableSlots(models) = {}

\* C13 witness: the pass evicted a slot and stopped within the budget with a
\* slot still loaded
C13_Witness ==
  /\ ev.kind = "load_started"
  /\ ev.removed
  /\ models # <<>>
  /\ ev.usage + estimate_model_memory(ev.slot) <= config.max_ram_mb

\* keep_loaded = on_demand with a positive idle_timeout_seconds
HasIdleTimer(s) ==
  /\ s \in DOMAIN config.models
  /\ config.models[s].keep_loaded = "on_demand"
  /\ config.models[s].idle_timeout_seconds > 0

Loaded(s) == s \in SeqToSet(models)

\* s is loaded and was last touched idle_timeout_seconds ago or earlier
IdleExpired(s) ==
  /\ Loaded(s)
  /\ HasIdleTimer(s)
  /\ now - model_info[s].last_used >= config.models[s].idle_timeout_seconds

\* C14: a loaded on_demand slot whose idle timeout has passed since its most
\* recent touch (its load or a later hit) is eventually unloaded unless it
\* is touched again, and an idle timer leaves a slot loaded whose most
\* recent touch is less than the timeout ago.
C14_IdleSlotIsUnloaded ==
  /\ \A s \in LoadableSlots : IdleExpired(s) ~> ~IdleExpired(s)
  /\ [][\A s \in LoadableSlots :
          (Loaded(s) /\ HasIdleTimer(s) /\ ~IdleExpired(s)
             /\ ManagerStep /\ ev'.kind = "idle_unload") => s \in SeqToSet(models')]_vars

\* the step is a load_model call that found slot loaded
IsHit(slot) ==
  ManagerStep /\ ev'.kind = "load_ok" /\ ev'.slot = slot /\ Loaded(slot)

\* C15: a load_model call that finds an on_demand slot with a positive idle
\* timeout loaded replaces its idle-unload task by one that sleeps the full
\* timeout from now, and a slot that leaves the loaded set leaves no
\* pending idle-unload task behind.
C15_TouchRearmsUnloadCancels ==
  [][\A s \in LoadableSlots :
       /\ (IsHit(s) /\ HasIdleTimer(s)) =>
            /\ s \in DOMAIN unload_tasks'
            /\ unload_tasks'[s].wakes = now + config.models[s].idle_timeout_seconds
       /\ (Loaded(s) /\ s \notin SeqToSet(models')) =>
            s \notin DOMAIN unload_tasks']_vars

\* C16: an idle-unload task that wakes unloads its slot only if the slot's
\* last_used is idle_timeout_seconds or more in the past.
C16_TimerRechecksLastUsed ==
  [][(ManagerStep /\ ev'.kind = "idle_unload" /\ ev'.removed) =>
       now - model_info[ev'.slot].last_used
         >= config.models[ev'.slot].idle_timeout_seconds]_vars

\* C16 witness: a task woke after a hit during its sleep and left the slot
\* loaded
C16_Witness ==
  /\ ev.kind = "idle_unload"
  /\ ~ev.removed
  /\ Loaded(ev.slot)
  /\ model_info[ev.slot].last_used > model_info[ev.slot].loaded_at
  /\ now - model_info[ev.slot].last_used < config.models[ev.slot].idle_timeout_seconds

Loading == {c \in Conns : pc[c] = "loading"}

\* C17: at most one load_model call is between its eviction pass and the
\* end of its loader call, it holds the lock, and a load starts only when
\* none is in progress.
C17_OneLoadAtATime ==
  /\ [](/\ Cardinality(Loading) <= 1
        /\ \A c \in Loading : load_lock = c)
  /\ [][\A c \in Conns : (pc'[c] = "loading" /\ pc[c] # "loading") => Loading = {}]_vars

\* C17 witness: one connection's load is in progress and the other
\* connection's load_model call waits for the lock
C17_Witness ==
  \E c, d \in Conns : pc[c] = "loading" /\ pc[d] = "waiting" /\ load_lock = c

UnderLock(e) == e.lock # 0 /\ e.lock = e.by

\* C19 as stated: whenever a load, a hit, an unload_model request, an
\* eviction or an idle-unload task changes the ordered slot map, the step
\* runs under the load lock.
C19_MapChangesUnderLock ==
  [][(ManagerStep /\ models' # models /\ ev'.kind # "shutdown") =>
       UnderLock(ev')]_vars

\* C19 amended: insertion on load, move-to-end on a hit and removal by
\* eviction run under the load lock; removal by an unload_model request and
\* by an idle-unload task runs without it.
C19_LoadPathUnderLock ==
  [][(ManagerStep /\ models' # models) =>
       /\ ev'.kind \in {"load_ok", "load_started"} => UnderLock(ev')
       /\ ev'.kind \in {"unload_ok", "idle_unload"} => ~UnderLock(ev')]_vars

\* C19 witness: an unload_model request removed a slot while the other
\* connection's load held the lock
C19_Witness ==
  /\ ev.kind = "unload_ok"
  /\ ev.removed
  /\ ev.lock # 0
  /\ ev.lock # ev.by

\* C20: when shutdown returns no slot is loaded, pinned ones included, and
\* no idle-unload task is pending; none wakes afterwards.
C20_ShutdownDropsEverything ==
  /\ [](ev.kind = "shutdown" => (models = <<>> /\ unload_tasks = <<>>))
  /\ [][(Stopped /\ ManagerStep) => ev'.kind # "idle_unload"]_vars

\* C20 witness: shutdown has dropped a pinned slot and cancelled a pending
\* idle-unload task
C20_Witness ==
  /\ ev.kind = "shutdown"
  /\ \E k \in 1..Len(ev.victims) : IsPinned(ev.victims[k].slot)
  /\ ev.cancelled # {}

\* the step is a load_model call entering (queued, served or started)
LoadCallEnters == ev'.kind \in {"load_waiting", "load_started"}
                    \/ (ev'.kind = "load_ok" /\ "waited" \in DOMAIN ev')

\* C21: when the loader fails during load_model(s) the client is answered
\* with error -32000, s is not loaded, the load lock is free, and the next
\* load_model call, for any slot, is let in at once (it is not queued
\* behind the failed one).
C21_LoaderFailureLeavesManagerUsable ==
  /\ [](ev.kind = "load_error" =>
         /\ ev.code = SERVER_ERROR
         /\ ev.slot \notin SeqToSet(models)
         /\ load_lock = 0
         /\ pc[ev.by] # "loading")
  /\ [][(ev.kind = "load_error" /\ ManagerStep /\ LoadCallEnters)
         => ev'.kind # "load_waiting"]_vars

\* C21 witness: a loader call has returned an instance in the load_model
\* call that followed a failed one
C21_Witness ==
  /\ ev.kind = "load_ok"
  /\ "after_error" \in DOMAIN ev
  /\ ev.after_error

\* no loaded slot is a candidate for eviction
NothingEvictable(ms) == Evictable(ms) = {}

\* the step is the end of a loader call that returned an instance
LoaderReturned == ev'.kind = "load_ok" /\ "waited" \notin DOMAIN ev'

\* C34: when no loaded slot is evictable, the eviction pass of load_model
\* drops nothing whatever the budget test says and the loader is called;
\* when the loader returns, the slot is loaded next to those that were.
C34_NothingEvictableStillLoads ==
  [][ManagerStep =>
       /\ (ev'.kind = "load_started" /\ NothingEvictable(models))
            => /\ ev'.victims = <<>>
               /\ models' = models
               /\ pc'[ev'.by] = "loading"
       /\ LoaderReturned
            => /\ ev'.slot \in SeqToSet(models')
               /\ SeqToSet(models) \subseteq SeqToSet(models')]_vars

\* C34 witness: max_ram_mb = 500, the embedder pinned and loaded,
\* load_model(reranker) found the budget exceeded and evicted nothing
C34_Witness ==
  /\ ev.kind = "load_started"
  /\ ev.slot = "reranker"
  /\ config.max_ram_mb = 500
  /\ models = <<"embedder">>
  /\ IsPinned("embedder")
  /\ ev.usage + estimate_model_memory("reranker") > config.max_ram_mb
  /\ ev.victims = <<>>

\* C35: the eviction loop of a load_model call drops one loaded slot per
\* turn: it takes at most as many turns as slots were loaded, whatever the
\* memory readings are, and then the loader is called.
C35_EvictionLoopBounded ==
  [][(ManagerStep /\ ev'.kind = "load_started")
       => /\ Len(ev'.victims) <= Len(models)
          /\ Len(models') + Len(ev'.victims) = Len(models)
          /\ \A k \in 1..Len(ev'.victims) :
               /\ ev'.victims[k].slot \in SeqToSet(models)
               /\ ev'.victims[k].slot \notin SeqToSet(models')
          /\ pc'[ev'.by] = "loading"]_vars

\* C35 witness: a loop that dropped two slots and ended with the memory
\* reading still over the budget
C35_Witness ==
  /\ ev.kind = "load_started"
  /\ Len(ev.victims) = 2
  /\ ev.usage + estimate_model_memory(ev.slot) > config.max_ram_mb

\* C37: a load_model call that fails leaves the loaded slots as they were
\* before the call: its eviction pass dropped nothing.
C37_FailedLoadEvictsNothing ==
  ev.kind = "load_error" => ~ev.evicted

\* C38: when an unload_model request for slot s is answered with
\* {unloaded: true}, s is not loaded.
C38_UnloadedMeansNotLoaded ==
  ev.kind = "unload_ok" => ev.slot \notin SeqToSet(models)

\* C39: the map lists the loaded slots in non-decreasing last_used order,
\* so the first evictable entry is the evictable slot with the oldest
\* last_used.
C39_MapInLastUsedOrder ==
  /\ \A k \in 1..(Len(models) - 1) :
       model_info[models[k]].last_used <= model_info[models[k + 1]].last_used
  /\ ~NothingEvictable(models) =>
       \A n \in Evictable(models) :
         model_info[EvictSlot(models)].last_used
           <= model_info[models[n]].last_used

\* C39 witness: two slots loaded, the one loaded first used again later
\* and now behind the other
C39_Witness ==
  /\ Len(models) = 2
  /\ model_info[models[1]].last_used < model_info[models[2]].last_used
  /\ model_info[models[2]].loaded_at < model_info[models[1]].loaded_at

----------------------------------------------------------------------------
(* Properties of the connections, checked under SpecRpc *)

\* the connection of the server's last step is still open
StillOpen == conn_state[rpc_ev.conn] = "open"

\* C22: a frame whose declared length exceeds 10 MiB is not passed to
\* _handle_request: no response is written, _request_count does not move
\* and the connection is closed; a frame of exactly 10 MiB is passed on.
C22_OversizeFrameDropped ==
  (rpc_ev.kind \in {"drop", "escape", "response", "await"}
     /\ rpc_ev.done) =>
    /\ rpc_ev.frame.length > MAX_FRAME =>
         /\ ~rpc_ev.passed
         /\ ~rpc_ev.answered
         /\ ~rpc_ev.counted
         /\ ~StillOpen
    /\ rpc_ev.frame.length = MAX_FRAME =>
         /\ rpc_ev.passed
         /\ rpc_ev.answered
         /\ StillOpen

\* C22 witness: on a connection that has had one request answered, a frame
\* over the limit has arrived
C22_Witness ==
  /\ rpc_ev.kind = "drop"
  /\ rpc_ev.frame.length = MAX_FRAME + 1
  /\ written[rpc_ev.conn] = 1
  /\ request_count = 1

\* C23: on a connection every frame passed on gets exactly one response,
\* the n-th response answers the n-th request and carries its id, and
\* request n+1 is not passed on before response n is written.
C23_OneResponsePerRequestInOrder ==
  /\ \A c \in Conns :
       /\ written[c] <= dispatched[c]
       /\ dispatched[c] <= written[c] + 1
       /\ handling[c].awaits = "" => written[c] = dispatched[c]
  /\ rpc_ev.answered =>
       /\ rpc_ev.n = written[rpc_ev.conn]
       /\ rpc_ev.id = rpc_ev.frame.body.id

\* the method member is a string
IsString(method) == method # "[]"

\* C24: a frame within the limit whose payload is not valid JSON is
\* answered with -32700 and id null, a request naming a method that is not
\* registered with -32601 and the request's id; the connection stays open.
C24_ParseErrorAndUnknownMethod ==
  (rpc_ev.done /\ rpc_ev.passed) =>
    /\ rpc_ev.frame.body.kind \in {"bad_json", "bad_utf8"} =>
         /\ rpc_ev.answered
         /\ rpc_ev.code = PARSE_ERROR
         /\ rpc_ev.id = NullId
         /\ StillOpen
    /\ (/\ rpc_ev.frame.body.kind = "object"
        /\ IsString(rpc_ev.frame.body.method)
        /\ rpc_ev.frame.body.method \notin Handlers) =>
         /\ rpc_ev.answered
         /\ rpc_ev.code = METHOD_NOT_FOUND
         /\ rpc_ev.id = rpc_ev.frame.body.id
         /\ StillOpen

\* C25: an exception raised while a request is handled (the parse error of
\* C24 aside) becomes a -32000 response with the request's id, and the
\* connection stays open.
C25_ExceptionBecomesServerError ==
  (rpc_ev.done /\ rpc_ev.raised \notin {"", "JSONDecodeError"}) =>
    /\ rpc_ev.answered
    /\ rpc_ev.code = SERVER_ERROR
    /\ rpc_ev.id = rpc_ev.frame.body.id
    /\ StillOpen

\* the request names a registered method and its parameters are invalid:
\* a required one is missing, or a search's mode is none of the three
InvalidParams(body) ==
  /\ body.kind = "object"
  /\ \/ body.method \in {"search", "rerank"} /\ Missing(body.params, "query")
     \/ body.method = "embed" /\ Missing(body.params, "texts")
     \/ body.method = "rerank" /\ Missing(body.params, "documents")
     \/ body.method \in {"load_model", "unload_model"}
          /\ Missing(body.params, "slot")
     \/ body.method = "search"
          /\ body.params.mode \notin {"hybrid", "bm25", "vector"}

\* C26: a request with invalid parameters is answered with -32000 after no
\* load_model call, no search and no inference, and the connection stays
\* open.
C26_InvalidParamsRejected ==
  (rpc_ev.kind \in {"response", "await", "escape"}
     /\ InvalidParams(rpc_ev.frame.body)) =>
    /\ rpc_ev.loads = {}
    /\ ~rpc_ev.searched
    /\ rpc_ev.inference = {}
    /\ rpc_ev.done
    /\ rpc_ev.answered
    /\ rpc_ev.code = SERVER_ERROR
    /\ StillOpen

\* C30: every inference a handler runs is on the instance the manager
\* holds for the role, and no model instance exists outside the manager.
C30_InferenceOnManagerInstances ==
  /\ \A i \in rpc_ev.inference : i.on = "manager"
  /\ ~reranker_instance

----------------------------------------------------------------------------
(* Properties of the daemon's life, checked under SpecLife and SpecLifeLive *)

\* the process has stopped accepting, holds no connection and no model,
\* and neither file names it
ShutDown(i) ==
  /\ inst[i].phase = "exited"
  /\ ~inst[i].listening
  /\ clients[i] = 0
  /\ inst[i].loaded = {}
  /\ sock_file # i
  /\ pid_file # i

\* C27: once the shutdown flag of a running daemon is set, the daemon
\* eventually stops accepting, closes its clients' connections, unloads
\* every model and removes the socket and PID files, whether or not a
\* client keeps a connection open.
C27_ShutdownCompletes ==
  \A i \in Inst : (Running(i) /\ inst[i].shutdown) ~> ShutDown(i)

\* C28: a process started while a daemon is serving on the socket path
\* finds it and does not go on to start, whatever that daemon is doing.
C28_SecondInstanceRefuses ==
  life_ev.kind = "start" => ~life_ev.alive

\* the slots whose load_model the start of process i has requested
Requested(i) == inst[i].loaded \cup inst[i].failed

\* C29: start requests load_model for the pinned slots only after the
\* socket is bound and the PID file written; when the pre-loading is over
\* every pinned slot has been requested, whether or not a load failed, and
\* the daemon listens throughout.
C29_PreloadEveryPinnedSlot ==
  \A i \in Inst :
    /\ (inst[i].phase = "preloading" \/ Requested(i) # {}) => inst[i].wrote_pid
    /\ inst[i].phase \in {"preloading", "serving"} => inst[i].listening
    /\ inst[i].phase = "serving" => Requested(i) = SeqToSet(PinnedSlots)

\* C29 witness: the first pinned slot failed to load, the second was
\* loaded after it, and the daemon serves a client
C29_Witness ==
  \E i \in Inst :
    /\ inst[i].phase = "serving"
    /\ inst[i].failed = {"embedder"}
    /\ inst[i].loaded = {"reranker"}
    /\ clients[i] > 0

\* C33: when graceful stop has run to its end, the socket file the process
\* bound at startup and the PID file it wrote at startup are gone, whatever
\* requests (reload_config included) came before.
C33_StopRemovesStartupFiles ==
  life_ev.kind = "exit" =>
    /\ sock_file # life_ev.by
    /\ pid_file # life_ev.by

----------------------------------------------------------------------------
(* Properties of the event loop, checked under SpecLoop *)

\* C32: while a handler's inference runs, a ping that a client has sent on
\* another connection can be served: the event loop is able to run the
\* connection's handler before the inference returns.
C32_PingServedDuringInference ==
  \A c \in Conns :
    (/\ loop.pending[c].method = "ping"
     /\ loop.pending[c].during # 0
     /\ loop.task[loop.pending[c].during].at = "inferring")
      => ENABLED Serve(c)

\* C40: a handler that is inside an inference call on the instance of a
\* slot finds the slot loaded from the return of load_model to the return
\* of the call: no unload request, eviction or idle unload removes it.
C40_NoUnloadDuringInference ==
  /\ \A c \in Conns :
       (loop.task[c].at = "inferring" /\ loop.task[c].slot # RerankerUsed)
         => loop.task[c].slot \in SeqToSet(loop.models)
  /\ loop.ev.kind = "inferred" => loop.ev.held

\* C40 witness: an inference has returned while an unload_model request
\* for its slot, sent during the inference, waits on another connection,
\* and the slot is not pinned
C40_Witness ==
  /\ loop.ev.kind = "inferred"
  /\ loop.ev.slot \in LoadableSlots
  /\ ~IsPinned(loop.ev.slot)
  /\ \E d \in Conns \ {loop.ev.conn} :
       /\ loop.pending[d].method = "unload_model"
       /\ loop.pending[d].slot = loop.ev.slot
       /\ loop.pending[d].during = loop.ev.conn

----------------------------------------------------------------------------
(* Properties of the client, checked under SpecClient *)

\* C36: a value a client method returns is the result of the request that
\* same call sent, also when an earlier call on the client has failed.
C36_ResponseBelongsToCall ==
  client.ev.kind \in {"returned", "rpc_error"} => client.ev.of = client.ev.call

----------------------------------------------------------------------------
(* Properties of two store handles, checked under SpecHandles *)

\* no call is in progress on either handle
HandlesQuiet == handle.index.at = "idle" /\ handle.delete.at = "idle"

\* C31: when a delete_source and an index call on two handles interleave,
\* the tables agree once both calls are over (a vector row and a full-text
\* row for every docs row, no vector row without a docs row), and the count
\* delete_source returns is the number of docs rows it removed.
C31_HandlesKeepTablesConsistent ==
  /\ HandlesQuiet =>
       /\ DOMAIN docs = DOMAIN docs_vec
       /\ DOMAIN docs = DOMAIN docs_fts
  /\ handle.ev.op = "delete_source" => handle.ev.count = handle.ev.removed

----------------------------------------------------------------------------
(* Properties of the index store, checked under SpecStore *)

SourceIds(d, s) == {i \in DOMAIN d : d[i].source = s}

RowSources(rows) == {rows[n].source : n \in 1..Len(rows)}

\* the sources some search_bm25, search_vector or search_hybrid call shows
ShownSources ==
  UNION {RowSources(search_bm25(q, limit))
           \cup RowSources(search_vector(e, limit))
           \cup RowSources(search_hybrid(q, e, limit, RRF_K,
                                         DEFAULT_WEIGHT, DEFAULT_WEIGHT)) :
         q \in {{"quick"}, {"fox"}}, e \in GoodEmbeddings, limit \in 0..MaxId}

\* the sources get_stats counts a chunk for
CountedSources == {t.source : t \in {u \in get_stats.top_sources : u.chunks > 0}}

\* C1: the docs table, the full-text index and the vector table hold the
\* same ids after every call, failed calls included.
C1_TablesHoldSameIds ==
  /\ DOMAIN docs = DOMAIN docs_fts
  /\ DOMAIN docs = DOMAIN docs_vec

\* C2: an index_batch call that raises leaves no row of the batch behind.
C2_BatchAllOrNothing ==
  [][(last'.op = "index_batch" /\ ~last'.ok) =>
       /\ docs' = docs
       /\ docs_fts' = docs_fts
       /\ docs_vec' = docs_vec]_vars

\* C3: delete_source(s) removes the chunks of s from all three tables and
\* no others, returns how many it removed, and until s is indexed again
\* get_stats counts no chunk of s and no search shows a row of s.
C3_DeleteSource ==
  /\ [][last'.op = "delete_source" =>
          LET gone == SourceIds(docs, last'.source) IN
          /\ SourceIds(docs', last'.source) = {}
          /\ DOMAIN docs' = DOMAIN docs \ gone
          /\ DOMAIN docs_fts' = DOMAIN docs_fts \ gone
          /\ DOMAIN docs_vec' = DOMAIN docs_vec \ gone
          /\ \A i \in DOMAIN docs' : docs'[i] = docs[i]
          /\ \A i \in DOMAIN docs_fts' : docs_fts'[i] = docs_fts[i]
          /\ \A i \in DOMAIN docs_vec' : docs_vec'[i] = docs_vec[i]
          /\ last'.count = Cardinality(gone)]_vars
  /\ [](\A s \in purged :
          /\ s \notin CountedSources
          /\ get_stats.total_chunks = Cardinality(DOMAIN docs \ SourceIds(docs, s))
          /\ s \notin ShownSources)

\* C3 witness: a delete_source call removed chunks and left another
\* source's chunk, which searches still show
C3_Witness ==
  /\ last.op = "delete_source"
  /\ last.count >= 1
  /\ last.source \in purged
  /\ DOMAIN docs_vec # {}
  /\ ShownSources # {}

\* C4: an id returned by index_document or index_batch was never returned
\* before and is greater than every id returned before.
C4_IdsNeverReused ==
  [][(last'.op \in {"index_document", "index_batch"} /\ last'.ok) =>
       \A k \in 1..Len(last'.ids) :
         /\ last'.ids[k] \notin issued
         /\ \A j \in issued : j < last'.ids[k]]_vars

----------------------------------------------------------------------------
(* Properties of the search pipeline, checked under SpecSearch *)

\* 1-based position of id in rows, or fetch_limit + 1 when it is not there
RankAmong(rows, id, fetch_limit) ==
  IF id \in SeqIds(rows)
  THEN CHOOSE n \in 1..Len(rows) : rows[n].id = id
  ELSE fetch_limit + 1

Bm25Hits == search_bm25(call.query, 3 * call.limit)
VecHits == search_vector(call.embedding, 3 * call.limit)
CandidateIds == SeqIds(Bm25Hits) \cup SeqIds(VecHits)

HasTie ==
  \E n \in 1..(Len(result) - 1) :
    FracEq(result[n].rrf_score, result[n + 1].rrf_score)

\* C5: every row of a search_hybrid result carries
\* rrf_score = bm25_weight/(k + b) + vec_weight/(k + v), b and v being the
\* id's rank among the first 3*limit BM25 and vector hits, or 3*limit + 1;
\* the rows are drawn from all ids of either list, none of them skipped.
C5_RrfScoreFormula ==
  call.op = "search_hybrid" =>
    LET bm25_hits == Bm25Hits
        vec_hits == VecHits
        candidates == SeqIds(bm25_hits) \cup SeqIds(vec_hits)
    IN /\ \A n \in 1..Len(result) :
            LET b == RankAmong(bm25_hits, result[n].id, 3 * call.limit)
                v == RankAmong(vec_hits, result[n].id, 3 * call.limit)
            IN /\ result[n].rrf_score.num * ((call.k + b) * (call.k + v))
                    = (call.bm25_weight * (call.k + v) + call.vec_weight * (call.k + b))
                        * result[n].rrf_score.den
               /\ result[n].rrf_score.den > 0
       /\ SeqIds(result) \subseteq candidates
       /\ Len(result) = Min(call.limit, Cardinality(candidates))
       /\ Cardinality(SeqIds(result)) = Len(result)

\* C5 witness: the top row is an id the vector list does not hold
C5_Witness ==
  /\ call.op = "search_hybrid"
  /\ Len(result) >= 1
  /\ result[1].vec_rank = 0
  /\ result[1].bm25_rank >= 1
  /\ result[1].id \notin SeqIds(VecHits)

\* the rank that entered the score: the sentinel where the field is None
UsedRank(r) == IF r = 0 THEN 3 * call.limit + 1 ELSE r

RanksAndLength ==
  /\ Len(result) = Min(call.limit, Cardinality(CandidateIds))
  /\ \A n \in 1..Len(result) : result[n].rank = n

\* C6 as stated: sorted by rrf_score descending, equal scores ordered by
\* smaller bm25_rank, then smaller vec_rank, then smaller id; truncated to
\* limit; rank is the 1-based position.
C6_TieBreakByRanks ==
  call.op = "search_hybrid" =>
    /\ RanksAndLength
    /\ \A n \in 1..(Len(result) - 1) :
         LET x == result[n]
             y == result[n + 1]
             xb == UsedRank(x.bm25_rank)
             yb == UsedRank(y.bm25_rank)
             xv == UsedRank(x.vec_rank)
             yv == UsedRank(y.vec_rank)
         IN \/ FracGt(x.rrf_score, y.rrf_score)
            \/ /\ FracEq(x.rrf_score, y.rrf_score)
               /\ \/ xb < yb
                  \/ xb = yb /\ xv < yv
                  \/ xb = yb /\ xv = yv /\ x.id < y.id

\* C6 amended: sorted by rrf_score descending, equal scores left in the
\* order in which the candidate id set enumerates them (ascending id
\* here), whatever their bm25_rank and vec_rank; the returned rows are the
\* first limit of that order and rank is the 1-based position.
C6_StableByEnumeration ==
  call.op = "search_hybrid" =>
    /\ RanksAndLength
    /\ \A n \in 1..(Len(result) - 1) :
         \/ FracGt(result[n].rrf_score, result[n + 1].rrf_score)
         \/ /\ FracEq(result[n].rrf_score, result[n + 1].rrf_score)
            /\ result[n].id < result[n + 1].id
    /\ LET all == RrfCandidates(call.query, call.embedding, call.limit,
                                call.k, call.bm25_weight, call.vec_weight)
       IN \A m \in 1..Len(all) :
            all[m].id \notin SeqIds(result) =>
              \A n \in 1..Len(result) :
                ~FracGt(all[m].rrf_score, result[n].rrf_score)

\* C6 witness: two returned rows of equal rrf_score, the first with the
\* greater bm25_rank
C6_Witness ==
  /\ call.op = "search_hybrid"
  /\ \E n \in 1..(Len(result) - 1) :
       /\ FracEq(result[n].rrf_score, result[n + 1].rrf_score)
       /\ UsedRank(result[n].bm25_rank) > UsedRank(result[n + 1].bm25_rank)

RrfList ==
  search_hybrid(call.query, call.embedding, call.rerank_top_k,
                RRF_K, DEFAULT_WEIGHT, DEFAULT_WEIGHT)

RrfPosition(rrf, id) == RankAmong(rrf, id, call.rerank_top_k)

\* C8: search_hybrid_reranked(limit = N, rerank_top_k = K) returns at most
\* N rows and row n carries rank n.
C8_RerankedLengthAndRanks ==
  call.op = "search_hybrid_reranked" =>
    /\ Len(result) <= call.limit
    /\ \A n \in 1..Len(result) : result[n].rank = n

\* C8 witness: more candidates than limit, and a returned row that the
\* reranker moved away from its RRF position
C8_Witness ==
  /\ call.op = "search_hybrid_reranked"
  /\ call.rerank_top_k > call.limit
  /\ Len(result) = call.limit
  /\ LET rrf == RrfList
     IN \E n \in 1..Len(result) : RrfPosition(rrf, result[n].id) # n

\* C9: the reranked rows are in descending rerank_score order, rows of
\* equal rerank_score in their RRF order.
C9_RerankOrder ==
  call.op = "search_hybrid_reranked" =>
    LET rrf == RrfList
    IN \A n \in 1..(Len(result) - 1) :
         \/ result[n].rerank_score > result[n + 1].rerank_score
         \/ /\ result[n].rerank_score = result[n + 1].rerank_score
            /\ RrfPosition(rrf, result[n].id) < RrfPosition(rrf, result[n + 1].id)

\* C9 witness: two rows of equal rerank_score, returned in their RRF order,
\* that the reranker lifted over the candidate RRF had put first
C9_Witness ==
  /\ call.op = "search_hybrid_reranked"
  /\ Len(result) >= 2
  /\ result[1].rerank_score = result[2].rerank_score
  /\ LET rrf == RrfList
     IN /\ RrfPosition(rrf, result[1].id) > 1
        /\ RrfPosition(rrf, result[1].id) < RrfPosition(rrf, result[2].id)

====
